---- MODULE Spec2Model ----
(***************************************************************************)
(* Model of the subprocess I/O bridge of termingo (src/main.go): the event *)
(* loop's handleKeyEvent / executeCommand / processPtyCommand, the reader  *)
(* goroutine handlePtyOutput with its deferred cleanup, and the watcher    *)
(* goroutine started by processPtyCommand, interleaved at the level of the *)
(* reads and writes of the shared Terminal fields (the code takes no lock).*)
(*                                                                         *)
(* A session is identified by the number of the command that started it;   *)
(* the same number names its *os.File handle, its *exec.Cmd and its        *)
(* ptyClosed channel.  Nil (0) is the nil pointer / nil channel.           *)
(*                                                                         *)
(* An element of outputLines stands for the run of segments that one call  *)
(* of addColoredOutputAtBeginning (or executeCommand) stores.              *)
(***************************************************************************)
EXTENDS Integers, Sequences, FiniteSets, TLC

\* ---- bounds of the model ------------------------------------------------
MaxCmds == 2        \* command lines submitted with Enter
MaxKeys == 2        \* key events handled while a session is live
MaxChunks == 1      \* chunks of output a child writes
MaxFaults == 1      \* EAGAIN / EINTR results the stream returns in a row

\* ---- program constants --------------------------------------------------
maxRetries == 10        \* handlePtyOutput: retries of "input/output error"
writeMaxRetries == 5    \* writeWithRetry: attempts of one write

Nil == 0
Sessions == 1..MaxCmds

VARIABLES
  inPtyMode,    \* Terminal.inPtyMode
  ptmx,         \* Terminal.ptmx: Nil or the handle of a session
  cmd,          \* Terminal.cmd: Nil or the command of a session
  ptyClosed,    \* Terminal.ptyClosed: Nil or the channel of a session
  sudoPrompt,   \* Terminal.sudoPrompt # ""
  outputLines,  \* Terminal.outputLines
  inputBuffer,  \* Terminal.inputBuffer: the runes of the command line typed
  ev,           \* the event loop: position in handleKeyEvent and its locals
  rd,           \* per session: the reader goroutine handlePtyOutput
  wt,           \* per session: the goroutine that waits for the child
  proc,         \* per session: the child process and its side of the stream
  closes,       \* per handle: number of Close() calls made on it
  chClosed,     \* per channel: close() has been executed on it
  panicked,     \* a goroutine has panicked (the program is gone)
  ncmd,         \* command lines submitted so far
  nkeys,        \* key events handled in PTY mode so far
  lim,          \* what the environment does at most in this run (never changes)
  envVars,      \* Terminal.envVars: the variables set with the builtin export
  cursorPos,    \* Terminal.cursorPos
  history,      \* Terminal.history
  historyPos,   \* Terminal.historyPos
  completionMatches,  \* Terminal.completionMatches
  completionIndex     \* Terminal.completionIndex

\* the fields of the line editor other than inputBuffer
editVars == <<cursorPos, history, historyPos, completionMatches, completionIndex>>

vars == <<inPtyMode, ptmx, cmd, ptyClosed, sudoPrompt, outputLines, inputBuffer,
          ev, rd, wt, proc, closes, chClosed, panicked, ncmd, nkeys, lim, envVars, editVars>>

termVars == <<inPtyMode, ptmx, cmd, ptyClosed, sudoPrompt, outputLines, inputBuffer>>

\* ---- values -------------------------------------------------------------
Keys == {"Enter", "Backspace", "Tab", "Rune", "Escape", "CtrlEscape",
         "CtrlZ", "CtrlC", "CtrlD", "CtrlQ", "Other"}

ChunkKinds == {"text", "prompt"}

Msg(k, s) == [k |-> k, s |-> s]

EvIdle == [pc |-> "idle", key |-> "none", data |-> 0, i |-> 0, post |-> "none",
           snap |-> <<>>, res |-> <<>>, sent |-> "none"]

RdNone == [pc |-> "none", retries |-> 0, run |-> 0, snap |-> <<>>, ret |-> "none",
           clr |-> FALSE, nstatus |-> 0, waited |-> FALSE]

WtNone == [pc |-> "none", snap |-> <<>>]

ExitCodes == {0, 1}

\* ---- environments --------------------------------------------------------
\* An environment gives every name its value, or Unset.  cmd.Env is a list of
\* NAME=value strings; here it is the list of the blocks the code appends one
\* after the other, each block an environment (no name twice in one block).
EnvNames == {"TERM", "COLORTERM", "LANG", "LC_ALL", "FOO"}
Unset == "(unset)"
NoEnv == [n \in EnvNames |-> Unset]

\* os.Environ(): main has set LANG and LC_ALL (lines 431-432); TERM and FOO
\* are what the program was started with
Environ(term, foo) ==
  [NoEnv EXCEPT !["LANG"] = "en_US.UTF-8", !["LC_ALL"] = "en_US.UTF-8",
                !["TERM"] = term, !["FOO"] = foo]

Environs == {Environ(term, foo) : term \in {Unset, "vt100"}, foo \in {Unset, "inherited"}}

\* processPtyCommand lines 153-158
Forced ==
  [NoEnv EXCEPT !["TERM"] = "xterm-256color", !["COLORTERM"] = "truecolor",
                !["LANG"] = "en_US.UTF-8", !["LC_ALL"] = "en_US.UTF-8"]

\* part_000 executeInteractiveCommand line 165
OldForced == [NoEnv EXCEPT !["TERM"] = "xterm-256color"]

\* os/exec: of the entries of cmd.Env with one name the last is used
Lookup(blocks, n) ==
  LET ks == {k \in 1..Len(blocks) : blocks[k][n] # Unset} IN
  IF ks = {} THEN Unset
  ELSE blocks[CHOOSE k \in ks : \A j \in ks : j <= k][n]

\* the environment the child gets from cmd.Env
EffectiveEnv(blocks) == [n \in EnvNames |-> Lookup(blocks, n)]

\* processPtyCommand lines 150-163: os.Environ(), the forced values, t.envVars
ChildEnv == EffectiveEnv(<<lim.environ, Forced, envVars>>)

\* part_000 executeInteractiveCommand lines 164-165: os.Environ(), TERM
OldChildEnv == EffectiveEnv(<<lim.environ, OldForced>>)

ProcNone == [st |-> "none", tty |-> FALSE, out |-> <<>>, produced |-> 0, code |-> 0,
             env |-> NoEnv]

Alive == ~panicked

\* What the environment does at most in one run.  cmds, keys, chunks, faults:
\* see the bounds; codes: the exit codes of a child; exits: the sessions whose
\* child exits at all; clear: the command lines that are the builtin `clear`
\* (the others start a child); export: the command lines that are the builtin
\* `export`; environ: what os.Environ() returns; detach: a child may close its terminal and keep running;
\* fine: every failed read of the reader's retry loop is a step of its own
\* (otherwise a run of failed reads, between which the reader changes nothing
\* but its own counter, is one step).
Racing ==    \* several commands, quiet children that never exit
  [cmds |-> MaxCmds, keys |-> 1, chunks |-> 0, faults |-> 0, codes |-> {0},
   exits |-> {}, export |-> {}, environ |-> Environ("vt100", Unset),
   clear |-> {}, detach |-> TRUE, fine |-> FALSE]
Typing ==    \* one command, keys
  [cmds |-> 1, keys |-> MaxKeys, chunks |-> 0, faults |-> 0, codes |-> {0},
   exits |-> {1}, export |-> {}, environ |-> Environ("vt100", Unset),
   clear |-> {}, detach |-> FALSE, fine |-> FALSE]
Prompting == \* one command with output, a key
  [cmds |-> 1, keys |-> 1, chunks |-> MaxChunks, faults |-> 0, codes |-> {0},
   exits |-> {1}, export |-> {}, environ |-> Environ("vt100", Unset),
   clear |-> {}, detach |-> FALSE, fine |-> FALSE]
Reading ==   \* one command with output and transient faults
  [cmds |-> 1, keys |-> 0, chunks |-> MaxChunks, faults |-> MaxFaults,
   codes |-> ExitCodes, exits |-> {1}, export |-> {}, environ |-> Environ("vt100", Unset),
   clear |-> {}, detach |-> TRUE, fine |-> FALSE]
Stepping ==  \* one command on a stream that keeps failing, attempt by attempt
  [cmds |-> 1, keys |-> 0, chunks |-> 0, faults |-> maxRetries + MaxFaults,
   codes |-> {0}, exits |-> {1}, export |-> {}, environ |-> Environ("vt100", Unset),
   clear |-> {}, detach |-> TRUE, fine |-> TRUE]

Clearing ==  \* one command with output, then the builtin clear
  [cmds |-> MaxCmds, keys |-> 0, chunks |-> MaxChunks, faults |-> 0, codes |-> {0},
   exits |-> {1}, export |-> {}, environ |-> Environ("vt100", Unset),
   clear |-> {MaxCmds}, detach |-> FALSE, fine |-> FALSE]

\* a variable is exported, then a command is started
Exporting(environ) ==
  [cmds |-> MaxCmds, keys |-> 0, chunks |-> 0, faults |-> 0, codes |-> {0},
   exits |-> {}, export |-> {1}, environ |-> environ,
   clear |-> {}, detach |-> FALSE, fine |-> FALSE]

Scenarios ==
  {Racing, Typing, Prompting, Reading, Stepping, Clearing}
    \cup {Exporting(e) : e \in Environs}

\* the failed reads one step stands for, of the `left` the loop still allows
Burst(left) == IF lim.fine THEN 1 ELSE left

\* the state after main() has built the Terminal: no session
Boot ==
  /\ inPtyMode = FALSE
  /\ ptmx = Nil
  /\ cmd = Nil
  /\ ptyClosed = Nil
  /\ sudoPrompt = FALSE
  /\ outputLines = <<>>
  /\ inputBuffer = <<>>
  /\ envVars = NoEnv
  /\ cursorPos = 0 /\ history = <<>> /\ historyPos = 0
  /\ completionMatches = <<>> /\ completionIndex = 0
  /\ ev = EvIdle
  /\ rd = [s \in Sessions |-> RdNone]
  /\ wt = [s \in Sessions |-> WtNone]
  /\ proc = [s \in Sessions |-> ProcNone]
  /\ closes = [s \in Sessions |-> 0]
  /\ chClosed = [s \in Sessions |-> FALSE]
  /\ panicked = FALSE
  /\ ncmd = 0
  /\ nkeys = 0

Init == Boot /\ lim \in Scenarios


\* ---- library facts the code relies on -----------------------------------

\* exec.Cmd.ProcessState is filled in by Cmd.Wait / Cmd.Run only.  The code waits
\* with cmd.Process.Wait() (os.Process), which returns the state to its caller
\* and leaves the Cmd's field nil.
ProcessStateKnown(c) == FALSE

\* os.Process.Wait has returned for the child of session s (the child is reaped).
Reaped(s) == wt[s].pc \notin {"none", "wait", "oWait"} \/ rd[s].waited

\* os.Process.Signal fails ("os: process already finished") once the child is reaped.
SignalFails(c) == proc[c].st = "exited" /\ Reaped(c)

\* (*os.File).Write on handle h: fails on a nil receiver and on a closed file;
\* on an open master it may fail once the child side is closed.
WriteResults(h) ==
  IF h = Nil \/ closes[h] > 0 THEN {FALSE}
  ELSE IF proc[h].tty THEN {TRUE} ELSE {TRUE, FALSE}

\* ---- the output sink ----------------------------------------------------

\* addColoredOutputAtBeginning: the new segments first, the old output after them.
Prepend(new, old) == new \o old

\* the command lines the user types, one token for a word of the line: a
\* command for the shell, and the builtins clear and export
LineSys == <<"sys">>
LineClear == <<"clear">>
LineExport == <<"export">>

\* ---- handleKeyEvent -----------------------------------------------------

\* line 1748: the live-session branch is taken
LiveBranch == inPtyMode /\ ptmx # Nil

\* t.cmd != nil && t.cmd.Process != nil (Process is set by a successful Start)
HandleAvailable == cmd # Nil

KeyByte(k) ==
  CASE k = "Enter" -> 13
    [] k = "Backspace" -> 8
    [] k = "Tab" -> 9
    [] k = "Rune" -> 97
    [] k \in {"Escape", "CtrlEscape"} -> 27
    [] k = "CtrlC" -> 3
    [] k = "CtrlD" -> 4
    [] OTHER -> 0

DoWrite(b, post) == [op |-> "write", data |-> b, sig |-> "none", fallback |-> FALSE, post |-> post]
DoSignal(sg, fb, post) == [op |-> "signal", data |-> 3, sig |-> sg, fallback |-> fb, post |-> post]
DoNothing == [op |-> "none", data |-> 0, sig |-> "none", fallback |-> FALSE, post |-> "none"]

\* lines 1793-1818: a password prompt is shown
SudoKeyAction(k) ==
  CASE k = "Enter" -> DoWrite(13, "clear")
    [] k \in {"Backspace", "Rune"} -> DoWrite(KeyByte(k), "none")
    [] k = "CtrlC" -> IF HandleAvailable THEN DoSignal("INT", FALSE, "clear")
                      ELSE DoWrite(3, "clear")
    [] k \in {"Escape", "CtrlEscape"} -> DoWrite(27, "none")
    [] OTHER -> DoNothing

\* lines 1820-1866: the key switch of a live session
MainKeyAction(k) ==
  CASE k = "CtrlEscape" -> IF HandleAvailable THEN DoSignal("INT", FALSE, "none")
                           ELSE DoNothing
    [] k \in {"Escape", "Enter", "Backspace", "Tab", "Rune", "CtrlD"} ->
         DoWrite(KeyByte(k), "none")
    [] k = "CtrlZ" -> IF HandleAvailable THEN DoSignal("TSTP", FALSE, "none")
                      ELSE DoNothing
    [] k = "CtrlC" -> IF HandleAvailable THEN DoSignal("INT", TRUE, "none")
                      ELSE DoWrite(3, "none")
    [] OTHER -> DoNothing

KeyAction(k) == IF sudoPrompt THEN SudoKeyAction(k) ELSE MainKeyAction(k)

\* the handler returns: its locals die; the signal it sent stays observable
Return(e) == [EvIdle EXCEPT !.sent = e.sent]

\* t.sudoPrompt = "" after the key was handled (lines 1798, 1811)
AfterPost(post) == IF post = "clear" THEN FALSE ELSE sudoPrompt

\* a key event arrives while the live-session branch is taken (line 1748)
KeyEvent ==
  /\ Alive /\ ev.pc = "idle" /\ LiveBranch /\ nkeys < lim.keys
  /\ \E k \in Keys : ev' = [EvIdle EXCEPT !.pc = "chkClosed", !.key = k]
  /\ nkeys' = nkeys + 1
  /\ UNCHANGED <<termVars, rd, wt, proc, closes, chClosed, panicked, ncmd, lim, envVars, editVars>>

\* lines 1750-1761: select on t.ptyClosed (a nil channel is never ready)
KeyChkClosed ==
  /\ Alive /\ ev.pc = "chkClosed"
  /\ IF ptyClosed # Nil /\ chClosed[ptyClosed]
       THEN /\ inPtyMode' = FALSE /\ ptmx' = Nil /\ cmd' = Nil /\ ptyClosed' = Nil
            /\ ev' = Return(ev)
       ELSE /\ ev' = [ev EXCEPT !.pc = "chkNil"]
            /\ UNCHANGED <<inPtyMode, ptmx, cmd, ptyClosed>>
  /\ UNCHANGED <<sudoPrompt, outputLines, inputBuffer, rd, wt, proc, closes, chClosed,
                 panicked, ncmd, nkeys, lim, envVars, editVars>>

\* lines 1763-1770
KeyChkNil ==
  /\ Alive /\ ev.pc = "chkNil"
  /\ IF ptmx = Nil
       THEN /\ inPtyMode' = FALSE /\ cmd' = Nil /\ ptyClosed' = Nil
            /\ ev' = Return(ev)
       ELSE /\ ev' = [ev EXCEPT !.pc = "dispatch"]
            /\ UNCHANGED <<inPtyMode, cmd, ptyClosed>>
  /\ UNCHANGED <<ptmx, sudoPrompt, outputLines, inputBuffer, rd, wt, proc, closes, chClosed,
                 panicked, ncmd, nkeys, lim, envVars, editVars>>

\* lines 1772-1790: the process is seen to have exited
KeyProcessExited ==
  /\ closes' = IF ptmx # Nil THEN [closes EXCEPT ![ptmx] = @ + 1] ELSE closes
  /\ ptmx' = Nil /\ inPtyMode' = FALSE /\ cmd' = Nil /\ ptyClosed' = Nil
  /\ IF ptyClosed # Nil
       THEN IF chClosed[ptyClosed]
              THEN panicked' = TRUE /\ UNCHANGED chClosed
              ELSE chClosed' = [chClosed EXCEPT ![ptyClosed] = TRUE] /\ UNCHANGED panicked
       ELSE UNCHANGED <<chClosed, panicked>>
  /\ ev' = Return(ev)
  /\ UNCHANGED sudoPrompt

\* lines 1792-1866: the key is turned into a write or a signal
KeyDeliver ==
  LET a == KeyAction(ev.key) IN
  /\ CASE a.op = "write" ->
            /\ ev' = [ev EXCEPT !.pc = "wChk", !.data = a.data, !.i = 0, !.post = a.post]
            /\ UNCHANGED sudoPrompt
       [] a.op = "signal" /\ ~SignalFails(cmd) ->
            /\ ev' = Return([ev EXCEPT !.sent = a.sig])
            /\ sudoPrompt' = AfterPost(a.post)
       [] a.op = "signal" /\ SignalFails(cmd) /\ a.fallback ->
            /\ ev' = [ev EXCEPT !.pc = "wChk", !.data = a.data, !.i = 0, !.post = a.post]
            /\ UNCHANGED sudoPrompt
       [] OTHER ->
            /\ ev' = Return(ev)
            /\ sudoPrompt' = AfterPost(a.post)
  /\ UNCHANGED <<inPtyMode, ptmx, cmd, ptyClosed, closes, chClosed, panicked>>

KeyDispatch ==
  /\ Alive /\ ev.pc = "dispatch"
  /\ IF cmd # Nil /\ ProcessStateKnown(cmd) THEN KeyProcessExited ELSE KeyDeliver
  /\ UNCHANGED <<outputLines, inputBuffer, rd, wt, proc, ncmd, nkeys, lim, envVars, editVars>>

\* writeWithRetry, lines 1722-1728: the nil check of one attempt
WriteChk ==
  /\ Alive /\ ev.pc = "wChk"
  /\ IF ptmx = Nil
       THEN ev' = [ev EXCEPT !.pc = "insW",
                             !.snap = Prepend(<<Msg("diagClosed", 0)>>, outputLines)]
       ELSE ev' = [ev EXCEPT !.pc = "wWrite"]
  /\ UNCHANGED <<termVars, rd, wt, proc, closes, chClosed, panicked, ncmd, nkeys, lim, envVars, editVars>>

\* writeWithRetry, lines 1730-1744: t.ptmx.Write(data), then retry or give up
WriteTry ==
  /\ Alive /\ ev.pc = "wWrite"
  /\ \E ok \in WriteResults(ptmx) :
       IF ok
         THEN /\ ev' = Return(ev)
              /\ sudoPrompt' = AfterPost(ev.post)
         ELSE /\ IF ev.i + 1 < writeMaxRetries
                   THEN ev' = [ev EXCEPT !.pc = "wSleep"]
                   ELSE ev' = [ev EXCEPT !.pc = "insW",
                                         !.snap = Prepend(<<Msg("diagWrite", 0)>>, outputLines)]
              /\ UNCHANGED sudoPrompt
  /\ UNCHANGED <<inPtyMode, ptmx, cmd, ptyClosed, outputLines, inputBuffer,
                 rd, wt, proc, closes, chClosed, panicked, ncmd, nkeys, lim, envVars, editVars>>

\* writeWithRetry, lines 1740-1742: time.Sleep(50 * time.Millisecond) in the
\* event loop, then the next attempt
WriteSleep ==
  /\ Alive /\ ev.pc = "wSleep"
  /\ ev' = [ev EXCEPT !.pc = "wChk", !.i = @ + 1]
  /\ UNCHANGED <<termVars, rd, wt, proc, closes, chClosed, panicked, ncmd, nkeys, lim, envVars, editVars>>

\* addColoredOutputAtBeginning line 1165 in the event loop: t.outputLines = newOutput
WriteDiag ==
  /\ Alive /\ ev.pc = "insW"
  /\ outputLines' = ev.snap
  /\ ev' = Return(ev)
  /\ sudoPrompt' = AfterPost(ev.post)
  /\ UNCHANGED <<inPtyMode, ptmx, cmd, ptyClosed, inputBuffer,
                 rd, wt, proc, closes, chClosed, panicked, ncmd, nkeys, lim, envVars, editVars>>


\* ---- local line editing, executeCommand, processPtyCommand ---------------

\* handleKeyEvent KeyRune in local mode: insertRune; the text typed is the
\* builtin `clear` or a command line that processCommand routes to
\* processSystemCommand -> processPtyCommand
LocalType ==
  /\ Alive /\ ev.pc = "idle" /\ ~LiveBranch /\ inputBuffer = <<>> /\ ncmd < lim.cmds
  /\ inputBuffer' = IF ncmd + 1 \in lim.clear THEN LineClear
                    ELSE IF ncmd + 1 \in lim.export THEN LineExport ELSE LineSys
  /\ cursorPos' = Len(inputBuffer')
  /\ UNCHANGED <<inPtyMode, ptmx, cmd, ptyClosed, sudoPrompt, outputLines,
                 ev, rd, wt, proc, closes, chClosed, panicked, ncmd, nkeys, lim, envVars,
                 history, historyPos, completionMatches, completionIndex>>

\* a start that reports its failure twice
StartFailedTwice == <<Msg("err", 0), Msg("err", 0)>>

\* processPtyCommand lines 170-178: pty.StartWithSize failed
StartFailed == <<Msg("err", 0)>>

\* processPtyCommand lines 180-221: the session's state after a successful start
StartedReader == [RdNone EXCEPT !.pc = "read"]
StartedProc(env) ==
  [st |-> "running", tty |-> TRUE, out |-> <<>>, produced |-> 0, code |-> 0, env |-> env]

\* handleKeyEvent KeyEnter in local mode (lines 1885-1889) -> executeCommand ->
\* processCommand -> processPtyCommand, up to the return of processCommand
LocalEnter ==
  /\ Alive /\ ev.pc = "idle" /\ ~LiveBranch /\ inputBuffer = LineSys /\ ncmd < lim.cmds
  /\ ncmd' = ncmd + 1
  /\ \E ok \in BOOLEAN :
       LET s == ncmd + 1 IN
       IF ok
         THEN /\ ptmx' = s /\ cmd' = s /\ inPtyMode' = TRUE /\ ptyClosed' = s
              /\ rd' = [rd EXCEPT ![s] = StartedReader]
              /\ wt' = [wt EXCEPT ![s].pc = "wait"]
              /\ proc' = [proc EXCEPT ![s] = StartedProc(ChildEnv)]
              /\ ev' = [EvIdle EXCEPT !.pc = "execRead", !.res = <<>>]
         ELSE /\ ev' = [EvIdle EXCEPT !.pc = "execRead", !.res = StartFailed]
              /\ UNCHANGED <<ptmx, cmd, inPtyMode, ptyClosed, rd, wt, proc>>
  /\ UNCHANGED <<sudoPrompt, outputLines, inputBuffer, closes, chClosed, panicked,
                 nkeys, lim, envVars, editVars>>

\* a clear that leaves a segment behind
NotCleared == <<Msg("cmd", 0)>>

\* processCommand line 1252: t.outputLines = []LineSegment{}
Cleared == <<>>

\* handleKeyEvent KeyEnter in local mode -> executeCommand -> processCommand,
\* case "clear" (lines 1251-1253), up to the return of processCommand
LocalClear ==
  /\ Alive /\ ev.pc = "idle" /\ ~LiveBranch /\ inputBuffer = LineClear /\ ncmd < lim.cmds
  /\ ncmd' = ncmd + 1
  /\ outputLines' = Cleared
  /\ ev' = [EvIdle EXCEPT !.pc = "execRead", !.res = <<>>]
  /\ UNCHANGED <<inPtyMode, ptmx, cmd, ptyClosed, sudoPrompt, inputBuffer,
                 rd, wt, proc, closes, chClosed, panicked, nkeys, lim, envVars, editVars>>

\* the names and values typed after `export`
ExportNames == {"TERM", "FOO"}
ExportValues == {"dumb"}

\* handleKeyEvent KeyEnter in local mode -> executeCommand -> processCommand ->
\* processExportCommand (lines 1641-1662), up to the return of processCommand
LocalExport ==
  /\ Alive /\ ev.pc = "idle" /\ ~LiveBranch /\ inputBuffer = LineExport /\ ncmd < lim.cmds
  /\ ncmd' = ncmd + 1
  /\ \E n \in ExportNames, v \in ExportValues : envVars' = [envVars EXCEPT ![n] = v]
  /\ ev' = [EvIdle EXCEPT !.pc = "execRead", !.res = <<Msg("export", 0)>>]
  /\ UNCHANGED <<inPtyMode, ptmx, cmd, ptyClosed, sudoPrompt, outputLines, inputBuffer,
                 rd, wt, proc, closes, chClosed, panicked, nkeys, lim, editVars>>

\* executeCommand lines 1208-1223: the command line, its result, then the old output
ExecRead ==
  /\ Alive /\ ev.pc = "execRead"
  /\ ev' = [ev EXCEPT !.pc = "execWrite",
                      !.snap = Prepend(<<Msg("cmd", 0)>> \o ev.res, outputLines)]
  /\ UNCHANGED <<termVars, rd, wt, proc, closes, chClosed, panicked, ncmd, nkeys, lim, envVars, editVars>>

\* a history position on the last entry instead of past it
HistoryLast(h) == Len(h) - 1

\* line 1232: t.historyPos = len(t.history)
HistoryEnd(h) == Len(h)

\* executeCommand lines 1226-1237
ExecWrite ==
  /\ Alive /\ ev.pc = "execWrite"
  /\ outputLines' = ev.snap
  /\ inputBuffer' = <<>>
  /\ cursorPos' = 0
  /\ history' = Append(history, inputBuffer)
  /\ historyPos' = HistoryEnd(history')
  /\ completionMatches' = <<>>
  /\ completionIndex' = 0
  /\ ev' = Return(ev)
  /\ UNCHANGED <<inPtyMode, ptmx, cmd, ptyClosed, sudoPrompt,
                 rd, wt, proc, closes, chClosed, panicked, ncmd, nkeys, lim, envVars>>

\* ---- the child process and its side of the stream -----------------------

ChildWrite(s) ==
  /\ Alive /\ proc[s].st = "running" /\ proc[s].tty /\ proc[s].produced < lim.chunks
  /\ \E k \in ChunkKinds :
       proc' = [proc EXCEPT ![s].out = Append(@, k), ![s].produced = @ + 1]
  /\ UNCHANGED <<termVars, ev, rd, wt, closes, chClosed, panicked, ncmd, nkeys, lim, envVars, editVars>>

\* the child closes its terminal descriptors and keeps running
ChildCloseTty(s) ==
  /\ Alive /\ lim.detach /\ proc[s].st = "running" /\ proc[s].tty
  /\ proc' = [proc EXCEPT ![s].tty = FALSE]
  /\ UNCHANGED <<termVars, ev, rd, wt, closes, chClosed, panicked, ncmd, nkeys, lim, envVars, editVars>>

ChildExit(s) ==
  /\ Alive /\ proc[s].st = "running" /\ s \in lim.exits
  /\ \E c \in lim.codes :
       proc' = [proc EXCEPT ![s].st = "exited", ![s].tty = FALSE, ![s].code = c]
  /\ UNCHANGED <<termVars, ev, rd, wt, closes, chClosed, panicked, ncmd, nkeys, lim, envVars, editVars>>


\* ---- shared by the reader's cleanup and the watcher ----------------------

\* t.ptmx.Close(): the field is read again; Close on a nil *os.File does nothing
CloseCurrent == IF ptmx # Nil THEN [closes EXCEPT ![ptmx] = @ + 1] ELSE closes

\* select { case <-t.ptyClosed: ... default: close(t.ptyClosed) }: the receive
\* is ready only on a closed channel (lines 209-215, 279-286)
SeenClosed == ptyClosed # Nil /\ chClosed[ptyClosed]

\* close(t.ptyClosed) panics on a nil channel and on a closed channel
ClosePanics == ptyClosed = Nil \/ chClosed[ptyClosed]

CloseChannel == IF ClosePanics THEN chClosed ELSE [chClosed EXCEPT ![ptyClosed] = TRUE]

\* ---- handlePtyOutput: the read loop --------------------------------------

\* what ptmx.Read can return for session s (ptmx is the goroutine's own handle):
\* a closed file fails at once; unread output comes first; with the child side
\* closed the master reports an input/output error (Linux) or end of file
ReadResults(s) ==
  IF closes[s] > 0 THEN {"closed"}
  ELSE (IF proc[s].out # <<>> THEN {"data"}
        ELSE IF proc[s].tty THEN {} ELSE {"EIO", "EOF"})
       \cup (IF rd[s].run < lim.faults THEN {"EAGAIN", "EINTR"} ELSE {})

\* the kinds of the terminal-status messages (lines 260, 262, 267, 271)
StatusKinds == {"stSuccess", "stCode", "stDone", "stTimeout"}

IsStatus(m) == m.k \in StatusKinds

\* the reader stores msgs: newOutput is built from t.outputLines (line 1162) ...
RdInsert(r, msgs, ret, clr) ==
  [r EXCEPT !.pc = "insW", !.snap = Prepend(msgs, outputLines), !.ret = ret, !.clr = clr,
            !.nstatus = @ + Len(SelectSeq(msgs, IsStatus))]

\* line 343: another attempt after an input/output error
RetryIOError(retries) == retries < maxRetries

\* lines 378-401: a chunk was read
ReadData(s) ==
  /\ Alive /\ rd[s].pc = "read" /\ "data" \in ReadResults(s)
  /\ proc' = [proc EXCEPT ![s].out = Tail(@)]
  /\ LET r == [rd[s] EXCEPT !.retries = 0, !.run = 0] IN
     IF Head(proc[s].out) = "prompt"
       THEN /\ sudoPrompt' = TRUE
            /\ rd' = [rd EXCEPT ![s] = r]
       ELSE /\ rd' = [rd EXCEPT ![s] = RdInsert(r, <<Msg("data", s)>>, "read", TRUE)]
            /\ UNCHANGED sudoPrompt
  /\ UNCHANGED <<inPtyMode, ptmx, cmd, ptyClosed, outputLines, inputBuffer,
                 ev, wt, closes, chClosed, panicked, ncmd, nkeys, lim, envVars, editVars>>

\* lines 301-313: io.EOF (no bytes come with it)
ReadEOF(s) ==
  /\ Alive /\ rd[s].pc = "read" /\ "EOF" \in ReadResults(s)
  /\ rd' = [rd EXCEPT ![s].pc = "dChk"]
  /\ UNCHANGED <<termVars, ev, wt, proc, closes, chClosed, panicked, ncmd, nkeys, lim, envVars, editVars>>

\* lines 314-357: "input/output error"
ReadIOError(s) ==
  /\ Alive /\ rd[s].pc = "read" /\ "EIO" \in ReadResults(s)
  /\ LET k == Burst(maxRetries - rd[s].retries)
         r == [rd[s] EXCEPT !.retries = @ + k, !.run = @ + k]
     IN
     IF cmd # Nil /\ ProcessStateKnown(cmd)
       THEN rd' = [rd EXCEPT ![s].retries = @ + 1, ![s].run = @ + 1, ![s].pc = "dChk"]
       ELSE IF RetryIOError(r.retries)
         THEN rd' = [rd EXCEPT ![s] = r]
         ELSE IF Len(outputLines) = 0
           THEN rd' = [rd EXCEPT ![s] = RdInsert(r, <<Msg("diagIO", s)>>, "dChk", FALSE)]
           ELSE rd' = [rd EXCEPT ![s] = [r EXCEPT !.pc = "dChk"]]
  /\ UNCHANGED <<termVars, ev, wt, proc, closes, chClosed, panicked, ncmd, nkeys, lim, envVars, editVars>>

\* lines 358-366: "resource temporarily unavailable", "interrupted system call"
ReadTransient(s) ==
  /\ Alive /\ rd[s].pc = "read"
  /\ \E e \in ReadResults(s) \cap {"EAGAIN", "EINTR"} :
       rd' = [rd EXCEPT ![s].run = @ + 1]
  /\ UNCHANGED <<termVars, ev, wt, proc, closes, chClosed, panicked, ncmd, nkeys, lim, envVars, editVars>>

\* lines 367-372: any other error (here: the file was closed under the reader)
ReadFailed(s) ==
  /\ Alive /\ rd[s].pc = "read" /\ "closed" \in ReadResults(s)
  /\ rd' = [rd EXCEPT ![s] = RdInsert(rd[s], <<Msg("diagRead", s)>>, "dChk", FALSE)]
  /\ UNCHANGED <<termVars, ev, wt, proc, closes, chClosed, panicked, ncmd, nkeys, lim, envVars, editVars>>

\* ... and stored (line 1165); after a chunk, t.sudoPrompt = "" (line 399)
RdStore(s) ==
  /\ Alive /\ rd[s].pc = "insW"
  /\ outputLines' = rd[s].snap
  /\ sudoPrompt' = IF rd[s].clr THEN FALSE ELSE sudoPrompt
  /\ rd' = [rd EXCEPT ![s].pc = rd[s].ret, ![s].snap = <<>>, ![s].ret = "none", ![s].clr = FALSE]
  /\ UNCHANGED <<inPtyMode, ptmx, cmd, ptyClosed, inputBuffer,
                 ev, wt, proc, closes, chClosed, panicked, ncmd, nkeys, lim, envVars, editVars>>

\* ---- handlePtyOutput: the deferred cleanup -------------------------------

\* lines 229-231
RdOwnsHandle(s) == ptmx # Nil /\ ptmx = s

RdCheck(s) ==
  /\ Alive /\ rd[s].pc = "dChk"
  /\ rd' = [rd EXCEPT ![s].pc = IF RdOwnsHandle(s) THEN "dClose" ELSE "dMode"]
  /\ UNCHANGED <<termVars, ev, wt, proc, closes, chClosed, panicked, ncmd, nkeys, lim, envVars, editVars>>

\* line 233
RdClose(s) ==
  /\ Alive /\ rd[s].pc = "dClose"
  /\ closes' = CloseCurrent
  /\ rd' = [rd EXCEPT ![s].pc = "dNil"]
  /\ UNCHANGED <<termVars, ev, wt, proc, chClosed, panicked, ncmd, nkeys, lim, envVars, editVars>>

\* line 237
RdNil(s) ==
  /\ Alive /\ rd[s].pc = "dNil"
  /\ ptmx' = Nil
  /\ rd' = [rd EXCEPT ![s].pc = "dMode"]
  /\ UNCHANGED <<inPtyMode, cmd, ptyClosed, sudoPrompt, outputLines, inputBuffer,
                 ev, wt, proc, closes, chClosed, panicked, ncmd, nkeys, lim, envVars, editVars>>

\* line 240
RdMode(s) ==
  /\ Alive /\ rd[s].pc = "dMode"
  /\ inPtyMode' = FALSE
  /\ rd' = [rd EXCEPT ![s].pc = "dWait"]
  /\ UNCHANGED <<ptmx, cmd, ptyClosed, sudoPrompt, outputLines, inputBuffer,
                 ev, wt, proc, closes, chClosed, panicked, ncmd, nkeys, lim, envVars, editVars>>

\* lines 257-268: the status line once the wait has returned
ExitStatus(s) ==
  IF ProcessStateKnown(s)
    THEN IF proc[s].code = 0 THEN "stSuccess" ELSE "stCode"
    ELSE "stDone"

WaitStatus(s) == <<Msg(ExitStatus(s), s)>>

\* a cleanup that says nothing when the timer fired first
NoStatus(s) == <<>>

\* line 271: the status line when the timer fired first
TimeoutStatus(s) == <<Msg("stTimeout", s)>>

\* lines 243-268: cmd.Process.Wait() returned before the timer fired
RdWaitDone(s) ==
  /\ Alive /\ rd[s].pc = "dWait" /\ proc[s].st = "exited"
  /\ rd' = [rd EXCEPT ![s] =
              RdInsert([rd[s] EXCEPT !.waited = TRUE], WaitStatus(s), "cChk", FALSE)]
  /\ UNCHANGED <<termVars, ev, wt, proc, closes, chClosed, panicked, ncmd, nkeys, lim, envVars, editVars>>

\* lines 269-272: five seconds passed and the child has not exited
RdWaitTimeout(s) ==
  /\ Alive /\ rd[s].pc = "dWait" /\ proc[s].st # "exited"
  /\ rd' = [rd EXCEPT ![s] =
              RdInsert(rd[s], TimeoutStatus(s), "cChk", FALSE)]
  /\ UNCHANGED <<termVars, ev, wt, proc, closes, chClosed, panicked, ncmd, nkeys, lim, envVars, editVars>>

\* line 276
RdChanCheck(s) ==
  /\ Alive /\ rd[s].pc = "cChk"
  /\ rd' = [rd EXCEPT ![s].pc = IF ptyClosed # Nil THEN "cSel" ELSE "done"]
  /\ UNCHANGED <<termVars, ev, wt, proc, closes, chClosed, panicked, ncmd, nkeys, lim, envVars, editVars>>

\* lines 279-283
RdChanSelect(s) ==
  /\ Alive /\ rd[s].pc = "cSel"
  /\ rd' = [rd EXCEPT ![s].pc = IF SeenClosed THEN "cNil" ELSE "cClose"]
  /\ UNCHANGED <<termVars, ev, wt, proc, closes, chClosed, panicked, ncmd, nkeys, lim, envVars, editVars>>

\* line 285
RdChanClose(s) ==
  /\ Alive /\ rd[s].pc = "cClose"
  /\ panicked' = ClosePanics
  /\ chClosed' = CloseChannel
  /\ rd' = [rd EXCEPT ![s].pc = "cNil"]
  /\ UNCHANGED <<termVars, ev, wt, proc, closes, ncmd, nkeys, lim, envVars, editVars>>

\* line 287
RdChanNil(s) ==
  /\ Alive /\ rd[s].pc = "cNil"
  /\ ptyClosed' = Nil
  /\ rd' = [rd EXCEPT ![s].pc = "done"]
  /\ UNCHANGED <<inPtyMode, ptmx, cmd, sudoPrompt, outputLines, inputBuffer,
                 ev, wt, proc, closes, chClosed, panicked, ncmd, nkeys, lim, envVars, editVars>>

\* ---- processPtyCommand: the watcher goroutine ----------------------------

\* line 195: cmd.Process.Wait() returns once the child has exited
WtWait(s) ==
  /\ Alive /\ wt[s].pc = "wait" /\ proc[s].st = "exited"
  /\ wt' = [wt EXCEPT ![s].pc = "chk"]
  /\ UNCHANGED <<termVars, ev, rd, proc, closes, chClosed, panicked, ncmd, nkeys, lim, envVars, editVars>>

\* line 201
WtOwnsHandle(s) == ptmx # Nil /\ ptmx = s

WtCheck(s) ==
  /\ Alive /\ wt[s].pc = "chk"
  /\ wt' = [wt EXCEPT ![s].pc = IF WtOwnsHandle(s) THEN "close" ELSE "cChk"]
  /\ UNCHANGED <<termVars, ev, rd, proc, closes, chClosed, panicked, ncmd, nkeys, lim, envVars, editVars>>

\* line 203
WtClose(s) ==
  /\ Alive /\ wt[s].pc = "close"
  /\ closes' = CloseCurrent
  /\ wt' = [wt EXCEPT ![s].pc = "nil"]
  /\ UNCHANGED <<termVars, ev, rd, proc, chClosed, panicked, ncmd, nkeys, lim, envVars, editVars>>

\* line 204
WtNil(s) ==
  /\ Alive /\ wt[s].pc = "nil"
  /\ ptmx' = Nil
  /\ wt' = [wt EXCEPT ![s].pc = "cChk"]
  /\ UNCHANGED <<inPtyMode, cmd, ptyClosed, sudoPrompt, outputLines, inputBuffer,
                 ev, rd, proc, closes, chClosed, panicked, ncmd, nkeys, lim, envVars, editVars>>

\* line 208
WtChanCheck(s) ==
  /\ Alive /\ wt[s].pc = "cChk"
  /\ wt' = [wt EXCEPT ![s].pc = IF ptyClosed # Nil THEN "cSel" ELSE "done"]
  /\ UNCHANGED <<termVars, ev, rd, proc, closes, chClosed, panicked, ncmd, nkeys, lim, envVars, editVars>>

\* lines 209-212
WtChanSelect(s) ==
  /\ Alive /\ wt[s].pc = "cSel"
  /\ wt' = [wt EXCEPT ![s].pc = IF SeenClosed THEN "cNil" ELSE "cClose"]
  /\ UNCHANGED <<termVars, ev, rd, proc, closes, chClosed, panicked, ncmd, nkeys, lim, envVars, editVars>>

\* line 214
WtChanClose(s) ==
  /\ Alive /\ wt[s].pc = "cClose"
  /\ panicked' = ClosePanics
  /\ chClosed' = CloseChannel
  /\ wt' = [wt EXCEPT ![s].pc = "cNil"]
  /\ UNCHANGED <<termVars, ev, rd, proc, closes, ncmd, nkeys, lim, envVars, editVars>>

\* line 216
WtChanNil(s) ==
  /\ Alive /\ wt[s].pc = "cNil"
  /\ ptyClosed' = Nil
  /\ wt' = [wt EXCEPT ![s].pc = "done"]
  /\ UNCHANGED <<inPtyMode, ptmx, cmd, sudoPrompt, outputLines, inputBuffer,
                 ev, rd, proc, closes, chClosed, panicked, ncmd, nkeys, lim, envVars, editVars>>

\* ---- the program ---------------------------------------------------------

EventLoop ==
  \/ KeyEvent \/ KeyChkClosed \/ KeyChkNil \/ KeyDispatch
  \/ WriteChk \/ WriteTry \/ WriteSleep \/ WriteDiag
  \/ LocalType \/ LocalEnter \/ LocalClear \/ LocalExport \/ ExecRead \/ ExecWrite

Reader(s) ==
  \/ ReadData(s) \/ ReadEOF(s) \/ ReadIOError(s) \/ ReadTransient(s) \/ ReadFailed(s)
  \/ RdStore(s) \/ RdCheck(s) \/ RdClose(s) \/ RdNil(s) \/ RdMode(s)
  \/ RdWaitDone(s) \/ RdWaitTimeout(s)
  \/ RdChanCheck(s) \/ RdChanSelect(s) \/ RdChanClose(s) \/ RdChanNil(s)

Watcher(s) ==
  \/ WtWait(s) \/ WtCheck(s) \/ WtClose(s) \/ WtNil(s)
  \/ WtChanCheck(s) \/ WtChanSelect(s) \/ WtChanClose(s) \/ WtChanNil(s)

Child(s) == ChildWrite(s) \/ ChildCloseTty(s) \/ ChildExit(s)

Next ==
  \/ EventLoop
  \/ \E s \in Sessions : Reader(s) \/ Watcher(s) \/ Child(s)

Spec == Init /\ [][Next]_vars

\* ---- the earlier revision, src/unnamed/part_000 --------------------------
\* An interactive command runs over pipes (executeInteractiveCommand); t.ptmx
\* holds the write end of the child's stdin.  wt[s] is the goroutine of lines
\* 240-251 that waits for the child, rd[s] the stdout scanner of lines 200-220.
\* A Ctrl+C arrives the way the terminal reports it, with the Ctrl modifier.

Piping ==    \* several commands, quiet children that exit
  [cmds |-> MaxCmds, keys |-> 1, chunks |-> 0, faults |-> 0, codes |-> {0},
   exits |-> Sessions, export |-> {}, environ |-> Environ("vt100", Unset),
   clear |-> {}, detach |-> FALSE, fine |-> FALSE]
Chatting ==  \* one command with output, keys
  [cmds |-> 1, keys |-> MaxKeys, chunks |-> MaxChunks, faults |-> 0,
   codes |-> ExitCodes, exits |-> {1}, export |-> {}, environ |-> Environ("vt100", Unset),
   clear |-> {}, detach |-> FALSE, fine |-> FALSE]

OldScenarios == {Piping, Chatting} \cup {Exporting(e) : e \in Environs}

OldInit == Boot /\ lim \in OldScenarios

OldKeys == {"CtrlQ", "CtrlC", "Enter", "Rune", "CtrlZ", "Other"}

OldKeyByte(k) ==
  CASE k = "Enter" -> 10
    [] k = "CtrlZ" -> 26
    [] OTHER -> KeyByte(k)

\* handleSudoInput, lines 368-397
OldSudoKeyAction(k) ==
  CASE k = "Enter" -> DoWrite(10, "clear")
    [] k \in {"Backspace", "Rune"} -> DoWrite(OldKeyByte(k), "none")
    [] OTHER -> DoNothing

\* handleKeyEvent, lines 1767-1822: the key switch of a live session
OldMainKeyAction(k) ==
  CASE k \in {"Rune", "Enter", "Backspace", "Tab", "Escape", "CtrlD", "CtrlZ"} ->
         DoWrite(OldKeyByte(k), "none")
    [] OTHER -> DoNothing

OldKeyAction(k) == IF sudoPrompt THEN OldSudoKeyAction(k) ELSE OldMainKeyAction(k)

\* handleKeyEvent is entered with a key while t.inPtyMode is set; a key other
\* than Ctrl+Q and Ctrl+C reaches line 1748 and is turned into a write
OldKeyEvent ==
  /\ Alive /\ ev.pc = "idle" /\ inPtyMode /\ nkeys < lim.keys
  /\ \E k \in OldKeys :
       IF k \in {"CtrlQ", "CtrlC"}
         THEN ev' = [EvIdle EXCEPT !.pc = "oChk", !.key = k]
         ELSE /\ LiveBranch
              /\ LET a == OldKeyAction(k) IN
                 IF a.op = "write"
                   THEN ev' = [EvIdle EXCEPT !.pc = "oWrite", !.key = k,
                                             !.data = a.data, !.post = a.post]
                   ELSE ev' = EvIdle
  /\ nkeys' = nkeys + 1
  /\ UNCHANGED <<termVars, rd, wt, proc, closes, chClosed, panicked, ncmd, lim, envVars, editVars>>

\* lines 1729 and 1741: t.inPtyMode && t.cmd != nil && t.cmd.Process != nil
OldKeyCheck ==
  /\ Alive /\ ev.pc = "oChk"
  /\ IF inPtyMode /\ HandleAvailable
       THEN ev' = [ev EXCEPT !.pc = IF ev.key = "CtrlQ" THEN "oKill" ELSE "oSig",
                             !.data = cmd]
       ELSE ev' = Return(ev)
  /\ UNCHANGED <<termVars, rd, wt, proc, closes, chClosed, panicked, ncmd, nkeys, lim, envVars, editVars>>

\* t.cmd.Process of lines 1731 and 1742: t.cmd is read again after the check.
\* The build may reuse the pointer it checked, or load the field again and
\* dereference nil.
OldTargets == IF cmd # Nil THEN {cmd} ELSE {ev.data, Nil}

\* line 1742: t.cmd.Process.Signal(os.Interrupt)
OldSignal ==
  /\ Alive /\ ev.pc = "oSig"
  /\ \E c \in OldTargets :
       IF c = Nil
         THEN panicked' = TRUE /\ UNCHANGED ev
         ELSE /\ ev' = Return([ev EXCEPT !.sent = IF SignalFails(c) THEN "none" ELSE "INT"])
              /\ UNCHANGED panicked
  /\ UNCHANGED <<termVars, rd, wt, proc, closes, chClosed, ncmd, nkeys, lim, envVars, editVars>>

\* lines 1731-1734: t.cmd.Process.Kill(), then the session fields are cleared
OldKill ==
  /\ Alive /\ ev.pc = "oKill"
  /\ \E c \in OldTargets :
       IF c = Nil
         THEN /\ panicked' = TRUE
              /\ UNCHANGED <<ev, proc, inPtyMode, ptmx, cmd>>
         ELSE /\ proc' = IF proc[c].st = "running"
                           THEN [proc EXCEPT ![c].st = "exited", ![c].tty = FALSE, ![c].code = 1]
                           ELSE proc
              /\ inPtyMode' = FALSE /\ ptmx' = Nil /\ cmd' = Nil
              /\ ev' = Return([ev EXCEPT !.sent = IF SignalFails(c) THEN "none" ELSE "KILL"])
              /\ UNCHANGED panicked
  /\ UNCHANGED <<ptyClosed, sudoPrompt, outputLines, inputBuffer,
                 rd, wt, closes, chClosed, ncmd, nkeys, lim, envVars, editVars>>

\* t.ptmx.Write(...) of lines 374-390 and 1769-1816: the result is dropped
OldWrite ==
  /\ Alive /\ ev.pc = "oWrite"
  /\ ev' = Return(ev)
  /\ sudoPrompt' = AfterPost(ev.post)
  /\ UNCHANGED <<inPtyMode, ptmx, cmd, ptyClosed, outputLines, inputBuffer,
                 rd, wt, proc, closes, chClosed, panicked, ncmd, nkeys, lim, envVars, editVars>>

\* executeInteractiveCommand lines 187-190: cmd.Start failed
OldStartFailed == <<Msg("err", 0)>>

\* handleKeyEvent KeyEnter in local mode -> executeCommand -> processCommand ->
\* processPtyCommand -> executeInteractiveCommand, up to line 195: t.cmd = cmd
OldLocalEnter ==
  /\ Alive /\ ev.pc = "idle" /\ ~LiveBranch /\ inputBuffer = LineSys /\ ncmd < lim.cmds
  /\ ncmd' = ncmd + 1
  /\ \E ok \in BOOLEAN :
       IF ok
         THEN /\ cmd' = ncmd + 1
              /\ proc' = [proc EXCEPT ![ncmd + 1] = StartedProc(OldChildEnv)]
              /\ ev' = [EvIdle EXCEPT !.pc = "oMode"]
         ELSE /\ ev' = [EvIdle EXCEPT !.pc = "execRead", !.res = OldStartFailed]
              /\ UNCHANGED <<cmd, proc>>
  /\ UNCHANGED <<inPtyMode, ptmx, ptyClosed, sudoPrompt, outputLines, inputBuffer,
                 rd, wt, closes, chClosed, panicked, nkeys, lim, envVars, editVars>>

\* lines 196-220: t.inPtyMode = true, the stdout scanner is started
OldSetMode ==
  /\ Alive /\ ev.pc = "oMode"
  /\ inPtyMode' = TRUE
  /\ rd' = [rd EXCEPT ![ncmd] = [RdNone EXCEPT !.pc = "oScan"]]
  /\ ev' = [ev EXCEPT !.pc = "oStdin"]
  /\ UNCHANGED <<ptmx, cmd, ptyClosed, sudoPrompt, outputLines, inputBuffer,
                 wt, proc, closes, chClosed, panicked, ncmd, nkeys, lim, envVars, editVars>>

\* lines 237-253: t.ptmx = stdin, the waiting goroutine is started
OldSetStdin ==
  /\ Alive /\ ev.pc = "oStdin"
  /\ ptmx' = ncmd
  /\ wt' = [wt EXCEPT ![ncmd].pc = "oWait"]
  /\ ev' = [EvIdle EXCEPT !.pc = "execRead", !.res = <<>>]
  /\ UNCHANGED <<inPtyMode, cmd, ptyClosed, sudoPrompt, outputLines, inputBuffer,
                 rd, proc, closes, chClosed, panicked, ncmd, nkeys, lim, envVars, editVars>>

\* lines 203-215: a line of output; newOutput is built from t.outputLines ...
OldScan(s) ==
  /\ Alive /\ rd[s].pc = "oScan" /\ proc[s].out # <<>>
  /\ proc' = [proc EXCEPT ![s].out = Tail(@)]
  /\ sudoPrompt' = IF Head(proc[s].out) = "prompt" THEN TRUE ELSE sudoPrompt
  /\ rd' = [rd EXCEPT ![s].pc = "oIns",
                      ![s].snap = Prepend(<<Msg("data", s)>>, outputLines)]
  /\ UNCHANGED <<inPtyMode, ptmx, cmd, ptyClosed, outputLines, inputBuffer,
                 ev, wt, closes, chClosed, panicked, ncmd, nkeys, lim, envVars, editVars>>

\* ... and stored
OldScanStore(s) ==
  /\ Alive /\ rd[s].pc = "oIns"
  /\ outputLines' = rd[s].snap
  /\ rd' = [rd EXCEPT ![s].pc = "oScan", ![s].snap = <<>>]
  /\ UNCHANGED <<inPtyMode, ptmx, cmd, ptyClosed, sudoPrompt, inputBuffer,
                 ev, wt, proc, closes, chClosed, panicked, ncmd, nkeys, lim, envVars, editVars>>

\* lines 216-220: the child has closed its stdout
OldScanEnd(s) ==
  /\ Alive /\ rd[s].pc = "oScan" /\ proc[s].out = <<>> /\ proc[s].st = "exited"
  /\ rd' = [rd EXCEPT ![s].pc = "done"]
  /\ UNCHANGED <<termVars, ev, wt, proc, closes, chClosed, panicked, ncmd, nkeys, lim, envVars, editVars>>

\* line 241: cmd.Wait() returns; it has closed the parent's end of the pipes
OldWait(s) ==
  /\ Alive /\ wt[s].pc = "oWait" /\ proc[s].st = "exited"
  /\ closes' = [closes EXCEPT ![s] = @ + 1]
  /\ wt' = [wt EXCEPT ![s].pc = "oMode"]
  /\ UNCHANGED <<termVars, ev, rd, proc, chClosed, panicked, ncmd, nkeys, lim, envVars, editVars>>

\* line 243
OldWaitMode(s) ==
  /\ Alive /\ wt[s].pc = "oMode"
  /\ inPtyMode' = FALSE
  /\ wt' = [wt EXCEPT ![s].pc = "oNil"]
  /\ UNCHANGED <<ptmx, cmd, ptyClosed, sudoPrompt, outputLines, inputBuffer,
                 ev, rd, proc, closes, chClosed, panicked, ncmd, nkeys, lim, envVars, editVars>>

\* line 244
OldWaitNil(s) ==
  /\ Alive /\ wt[s].pc = "oNil"
  /\ ptmx' = Nil
  /\ wt' = [wt EXCEPT ![s].pc = "oCmd"]
  /\ UNCHANGED <<inPtyMode, cmd, ptyClosed, sudoPrompt, outputLines, inputBuffer,
                 ev, rd, proc, closes, chClosed, panicked, ncmd, nkeys, lim, envVars, editVars>>

\* line 245
OldWaitCmd(s) ==
  /\ Alive /\ wt[s].pc = "oCmd"
  /\ cmd' = Nil
  /\ wt' = [wt EXCEPT ![s].pc = "oSt"]
  /\ UNCHANGED <<inPtyMode, ptmx, ptyClosed, sudoPrompt, outputLines, inputBuffer,
                 ev, rd, proc, closes, chClosed, panicked, ncmd, nkeys, lim, envVars, editVars>>

\* lines 246-250: the status line; cmd.Wait() reports a non-zero exit as an error
OldExitStatus(s) == IF proc[s].code = 0 THEN "stSuccess" ELSE "stError"

OldWaitStatus(s) ==
  /\ Alive /\ wt[s].pc = "oSt"
  /\ wt' = [wt EXCEPT ![s].pc = "oStW",
                      ![s].snap = Prepend(<<Msg(OldExitStatus(s), s)>>, outputLines)]
  /\ UNCHANGED <<termVars, ev, rd, proc, closes, chClosed, panicked, ncmd, nkeys, lim, envVars, editVars>>

OldWaitStore(s) ==
  /\ Alive /\ wt[s].pc = "oStW"
  /\ outputLines' = wt[s].snap
  /\ wt' = [wt EXCEPT ![s].pc = "done", ![s].snap = <<>>]
  /\ UNCHANGED <<inPtyMode, ptmx, cmd, ptyClosed, sudoPrompt, inputBuffer,
                 ev, rd, proc, closes, chClosed, panicked, ncmd, nkeys, lim, envVars, editVars>>

OldEventLoop ==
  \/ OldKeyEvent \/ OldKeyCheck \/ OldSignal \/ OldKill \/ OldWrite
  \/ LocalType \/ LocalExport \/ OldLocalEnter \/ OldSetMode \/ OldSetStdin
  \/ ExecRead \/ ExecWrite

OldScanner(s) == OldScan(s) \/ OldScanStore(s) \/ OldScanEnd(s)

OldWaiter(s) ==
  \/ OldWait(s) \/ OldWaitMode(s) \/ OldWaitNil(s) \/ OldWaitCmd(s)
  \/ OldWaitStatus(s) \/ OldWaitStore(s)

OldChild(s) == ChildWrite(s) \/ ChildExit(s)

OldNext ==
  \/ OldEventLoop
  \/ \E s \in Sessions : OldScanner(s) \/ OldWaiter(s) \/ OldChild(s)

OldSpec == OldInit /\ [][OldNext]_vars

\* Scheduling: a goroutine that can run does run, and a handler that has been
\* entered runs to its return.  Nothing obliges the user to press a key.
HandlerStep ==
  \/ KeyChkClosed \/ KeyChkNil \/ KeyDispatch
  \/ WriteChk \/ WriteTry \/ WriteSleep \/ WriteDiag
  \/ ExecRead \/ ExecWrite

FairSpec ==
  /\ Spec
  /\ WF_vars(HandlerStep)
  /\ \A s \in Sessions : WF_vars(Reader(s)) /\ WF_vars(Watcher(s))

\* ---- the decoder and the split of the output sink -------------------------
\* parseANSI, parseANSICodes, applyANSICodes and the insertion of decoded text,
\* run by the event loop on one text.  A text is a sequence of bytes; ev holds
\* the locals of parseANSI, outputLines the segments stored ([text, style]).

MaxPieces == 3      \* pieces a decoded text is put together from
MaxCodes == 3       \* parameters of one SGR sequence

ESC == 27
LBracket == 91
LetterM == 109
Semicolon == 59
NewLine == 10
LetterX == 120
Digit0 == 48

Digits == Digit0..(Digit0 + 9)

\* the pieces of the texts decoded: plain bytes, a line break, complete SGR
\* sequences (bold, red, the two resets), a truncated sequence and a parameter list
Pieces ==
  { <<LetterX>>, <<NewLine>>, <<LetterM>>,
    <<ESC, LBracket, Digit0 + 1, LetterM>>,
    <<ESC, LBracket, Digit0 + 3, Digit0 + 1, LetterM>>,
    <<ESC, LBracket, LetterM>>,
    <<ESC, LBracket, Digit0, LetterM>>,
    <<ESC, LBracket>>,
    <<Digit0 + 1, Semicolon>> }

RECURSIVE TextsOf(_)
TextsOf(n) ==
  IF n = 0 THEN {<<>>}
  ELSE LET T == TextsOf(n - 1) IN T \cup {t \o p : t \in T, p \in Pieces}

\* the texts of the decoder's and the filter's examples:
\* ESC[31m X ESC[0m Y, and a ESC[31m b ESC[0m c
SampleReset ==
  <<ESC, LBracket, Digit0 + 3, Digit0 + 1, LetterM, 88,
    ESC, LBracket, Digit0, LetterM, 89>>
SampleScenario ==
  <<97, ESC, LBracket, Digit0 + 3, Digit0 + 1, LetterM, 98,
    ESC, LBracket, Digit0, LetterM, 99>>

Texts == TextsOf(MaxPieces) \cup {SampleReset, SampleScenario}

\* tcell colours: ColorDefault, and a valid colour as 1 + its number in tcell
ColorDefault == 0

\* tcell.PaletteColor(n)
PaletteColor(n) == 1 + n

\* ansiColors[code] and ansiBgColors[code]: the bright codes name the same
\* colours as the normal ones but for black, which becomes gray;
\* ColorDarkMagenta lies outside the palette
AnsiColor(code) ==
  LET k == code % 10 IN
  CASE k = 0 -> IF code \in {90, 100} THEN PaletteColor(8) ELSE PaletteColor(0)
    [] k = 1 -> PaletteColor(9)
    [] k = 2 -> PaletteColor(2)
    [] k = 3 -> PaletteColor(11)
    [] k = 4 -> PaletteColor(12)
    [] k = 5 -> PaletteColor(256 + 139)
    [] k = 6 -> PaletteColor(6)
    [] OTHER -> PaletteColor(15)

\* tcell.StyleDefault.Foreground(c)
StyleOf(c) == [fg |-> c, bg |-> ColorDefault, bold |-> FALSE, underline |-> FALSE,
               italic |-> FALSE]

\* the base styles the callers pass: white (output), red (diagnostics)
BaseStyles == {StyleOf(AnsiColor(37)), StyleOf(AnsiColor(31))}

Segment(text, style) == [text |-> text, style |-> style]

\* regexp `\033\[([\d;]*)m`: the end of the run of digits and semicolons at p
RECURSIVE RunEnd(_, _)
RunEnd(text, p) ==
  IF p <= Len(text) /\ text[p] \in Digits \cup {Semicolon} THEN RunEnd(text, p + 1) ELSE p

\* the match that starts at i, if there is one: [from, to] the whole match,
\* [cs, ce] the parameters (1-based, inclusive)
MatchAt(text, i) ==
  LET q == RunEnd(text, i + 2) IN
  IF /\ i + 2 <= Len(text) /\ text[i] = ESC /\ text[i + 1] = LBracket
     /\ q <= Len(text) /\ text[q] = LetterM
    THEN <<[from |-> i, to |-> q, cs |-> i + 2, ce |-> q - 1]>>
    ELSE <<>>

\* re.FindAllStringSubmatchIndex(text, -1): leftmost matches, none overlapping
RECURSIVE FindAll(_, _)
FindAll(text, i) ==
  IF i > Len(text) THEN <<>>
  ELSE LET m == MatchAt(text, i) IN
       IF m = <<>> THEN FindAll(text, i + 1)
       ELSE m \o FindAll(text, m[1].to + 1)

\* fmt.Sscanf(part, "%d", &code) on a run of digits
RECURSIVE ToInt(_)
ToInt(ds) ==
  IF ds = <<>> THEN 0
  ELSE 10 * ToInt(SubSeq(ds, 1, Len(ds) - 1)) + (ds[Len(ds)] - Digit0)

\* strings.Split(codeStr, ";")
RECURSIVE SplitOn(_, _)
SplitOn(s, sep) ==
  LET hits == {k \in 1..Len(s) : s[k] = sep} IN
  IF hits = {} THEN <<s>>
  ELSE LET k == CHOOSE h \in hits : \A g \in hits : h <= g IN
       <<SubSeq(s, 1, k - 1)>> \o SplitOn(SubSeq(s, k + 1, Len(s)), sep)

\* parseANSICodes: an empty part counts as 0
parseANSICodes(codeStr) ==
  LET parts == SplitOn(codeStr, Semicolon) IN
  [k \in 1..Len(parts) |-> IF parts[k] = <<>> THEN 0 ELSE ToInt(parts[k])]

\* locals that start with bold set
ApplyStartBold == [fg |-> ColorDefault, bg |-> ColorDefault, bold |-> TRUE,
                   underline |-> FALSE, italic |-> FALSE]

\* applyANSICodes: the locals before the loop ...
ApplyStart == [fg |-> ColorDefault, bg |-> ColorDefault, bold |-> FALSE,
               underline |-> FALSE, italic |-> FALSE]

\* an indexed colour that does not consume its operands
AfterIndexedShort(i) == i + 1

\* lines 1095 and 1101 (1099 and 1101): i += 2, then i++
AfterIndexed(i) == i + 3

\* ... one code of the switch; the result is the locals and the next index
ApplyCode(codes, i, st) ==
  LET code == codes[i] IN
  CASE code = 0 -> <<ApplyStart, i + 1>>
    [] code = 1 -> <<[st EXCEPT !.bold = TRUE], i + 1>>
    [] code = 3 -> <<[st EXCEPT !.italic = TRUE], i + 1>>
    [] code = 4 -> <<[st EXCEPT !.underline = TRUE], i + 1>>
    [] code = 22 -> <<[st EXCEPT !.bold = FALSE], i + 1>>
    [] code = 23 -> <<[st EXCEPT !.italic = FALSE], i + 1>>
    [] code = 24 -> <<[st EXCEPT !.underline = FALSE], i + 1>>
    [] code \in 30..37 \cup 90..97 -> <<[st EXCEPT !.fg = AnsiColor(code)], i + 1>>
    [] code \in 40..47 \cup 100..107 -> <<[st EXCEPT !.bg = AnsiColor(code)], i + 1>>
    [] code = 38 /\ i + 2 <= Len(codes) /\ codes[i + 1] = 5 ->
         <<[st EXCEPT !.fg = PaletteColor(codes[i + 2])], AfterIndexed(i)>>
    [] code = 48 /\ i + 2 <= Len(codes) /\ codes[i + 1] = 5 ->
         <<[st EXCEPT !.bg = PaletteColor(codes[i + 2])], AfterIndexed(i)>>
    [] OTHER -> <<st, i + 1>>

RECURSIVE ApplyLoop(_, _, _)
ApplyLoop(codes, i, st) ==
  IF i > Len(codes) THEN st
  ELSE LET r == ApplyCode(codes, i, st) IN ApplyLoop(codes, r[2], r[1])

\* ... and lines 1104-1123, the style returned: the base style with what the
\* locals have set
ApplyFinish(st, baseStyle) ==
  [fg |-> IF st.fg # ColorDefault THEN st.fg ELSE baseStyle.fg,
   bg |-> IF st.bg # ColorDefault THEN st.bg ELSE baseStyle.bg,
   bold |-> st.bold \/ baseStyle.bold,
   underline |-> st.underline \/ baseStyle.underline,
   italic |-> st.italic \/ baseStyle.italic]

applyANSICodes(codes, baseStyle) == ApplyFinish(ApplyLoop(codes, 1, ApplyStart), baseStyle)

\* text[from:to] of Go, with 0-based from and exclusive to
Slice(text, from, to) == SubSeq(text, from + 1, to)

\* a slice that loses its last byte
SliceShort(text, from, to) == SubSeq(text, from + 1, to - 1)

\* parseANSI lines 1002-1007 and 1023-1028: the text from lastIndex up to `to`
TextBetween(text, lastIndex, to) == Slice(text, lastIndex, to)

\* strings.Split(segment.Text, "\n") and the loop of lines 1149-1159: the pieces
\* of one segment with a line-break segment between them, all in its style
SplitSegment(seg) ==
  LET lines == SplitOn(seg.text, NewLine)
      Piece(k) == IF k % 2 = 1 THEN Segment(lines[(k + 1) \div 2], seg.style)
                  ELSE Segment(<<NewLine>>, seg.style)
  IN [k \in 1..(2 * Len(lines) - 1) |-> Piece(k)]

RECURSIVE SplitSegments(_)
SplitSegments(segs) ==
  IF segs = <<>> THEN <<>> ELSE SplitSegment(Head(segs)) \o SplitSegments(Tail(segs))

\* executeCommand lines 1205-1211: the echoed command line "> " + cmd
CommandSegment == Segment(<<62, 32, LetterX>>, StyleOf(AnsiColor(90)))

\* nothing but texts to decode: no command is started, no key is pressed
Decoding ==
  [cmds |-> 0, keys |-> 0, chunks |-> 0, faults |-> 0, codes |-> {},
   exits |-> {}, export |-> {}, environ |-> Environ("vt100", Unset),
   clear |-> {}, detach |-> FALSE, fine |-> FALSE]

DecInit == Boot /\ lim = Decoding

\* the locals of parseANSI when it is entered; path tells what the caller does
\* with the segments: "split" (addColoredOutputAtBeginning) or "direct"
\* (executeCommand stores the result of processCommand as it is)
DecEnter(path, text, base) ==
  [pc |-> "find", path |-> path, text |-> text, base |-> base, cur |-> base,
   matches |-> <<>>, lastIndex |-> 0, segs |-> <<>>]

DecUnchanged ==
  UNCHANGED <<inPtyMode, ptmx, cmd, ptyClosed, sudoPrompt, inputBuffer,
              rd, wt, proc, closes, chClosed, panicked, ncmd, nkeys, lim, envVars, editVars>>

\* addColoredOutputAtBeginning(text, baseStyle) is called (line 1143)
CallInsert ==
  /\ ev.pc = "idle" /\ outputLines = <<>>
  /\ \E text \in Texts, base \in BaseStyles : ev' = DecEnter("split", text, base)
  /\ UNCHANGED outputLines /\ DecUnchanged

\* processCommand decodes the text of a builtin (echo, pwd, ...: lines 1254-1266)
CallBuiltin ==
  /\ ev.pc = "idle" /\ outputLines = <<>>
  /\ \E text \in Texts, base \in BaseStyles : ev' = DecEnter("direct", text, base)
  /\ UNCHANGED outputLines /\ DecUnchanged

\* part_000 executeSimpleCommand: the whole output of the command is one segment
CallSimple ==
  /\ ev.pc = "idle" /\ outputLines = <<>>
  /\ \E text \in Texts :
       ev' = [DecEnter("direct", text, StyleOf(AnsiColor(37))) EXCEPT
                !.pc = "returned",
                !.segs = <<Segment(text, StyleOf(AnsiColor(37)))>>]
  /\ UNCHANGED outputLines /\ DecUnchanged

\* parseANSI lines 986-996: the matches; with none the text is one segment
ParseFind ==
  /\ ev.pc = "find"
  /\ LET ms == FindAll(ev.text, 1) IN
     IF ms = <<>>
       THEN ev' = [ev EXCEPT !.pc = "parsed", !.segs = <<Segment(ev.text, ev.base)>>]
       ELSE ev' = [ev EXCEPT !.pc = "loop", !.matches = ms]
  /\ UNCHANGED outputLines /\ DecUnchanged

\* parseANSI lines 1000-1020: one match
ParseMatch ==
  /\ ev.pc = "loop" /\ ev.matches # <<>>
  /\ LET m == Head(ev.matches)
         codeStr == SubSeq(ev.text, m.cs, m.ce)
     IN ev' = [ev EXCEPT
                 !.segs = IF m.from - 1 > ev.lastIndex
                            THEN Append(@, Segment(TextBetween(ev.text, ev.lastIndex, m.from - 1),
                                                   ev.cur))
                            ELSE @,
                 !.cur = IF codeStr = <<>> THEN ev.base
                         ELSE applyANSICodes(parseANSICodes(codeStr), ev.base),
                 !.lastIndex = m.to,
                 !.matches = Tail(@)]
  /\ UNCHANGED outputLines /\ DecUnchanged

\* parseANSI lines 1022-1031: the text after the last match
ParseRest ==
  /\ ev.pc = "loop" /\ ev.matches = <<>>
  /\ ev' = [ev EXCEPT
              !.pc = "parsed",
              !.segs = IF ev.lastIndex < Len(ev.text)
                         THEN Append(@, Segment(TextBetween(ev.text, ev.lastIndex, Len(ev.text)),
                                                ev.cur))
                         ELSE @]
  /\ UNCHANGED outputLines /\ DecUnchanged

\* addColoredOutputAtBeginning lines 1146-1165: split, old output after, store
StoreSplit ==
  /\ ev.pc = "parsed" /\ ev.path = "split"
  /\ outputLines' = Prepend(SplitSegments(ev.segs), outputLines)
  /\ ev' = EvIdle
  /\ DecUnchanged

\* executeCommand lines 1205-1226: the command line, the result as it is
StoreDirect ==
  /\ ev.pc \in {"parsed", "returned"} /\ ev.path = "direct"
  /\ outputLines' = Prepend(<<CommandSegment>> \o ev.segs, outputLines)
  /\ ev' = EvIdle
  /\ DecUnchanged

\* ---- the control-sequence filter ------------------------------------------

QuestionMark == 63
Tilde == 126
LetterJ == 74
LetterH == 104

\* [a-zA-Z]
Letters == 65..90 \cup 97..122

\* regexp `\x1b\[[?0-9;]*[a-zA-Z]`: the end of the run of [?0-9;] at p
RECURSIVE CsiRunEnd(_, _)
CsiRunEnd(text, p) ==
  IF p <= Len(text) /\ text[p] \in Digits \cup {Semicolon, QuestionMark}
    THEN CsiRunEnd(text, p + 1) ELSE p

\* the match of that regexp that starts at i, if there is one
CsiMatchAt(text, i) ==
  LET q == CsiRunEnd(text, i + 2) IN
  IF /\ i + 2 <= Len(text) /\ text[i] = ESC /\ text[i + 1] = LBracket
     /\ q <= Len(text) /\ text[q] \in Letters
    THEN <<[from |-> i, to |-> q]>>
    ELSE <<>>

\* allowed.MatchString(match): `\x1b\[[0-9;]*m` is found somewhere in match
Allowed(match) == FindAll(match, 1) # <<>>

\* re.ReplaceAllStringFunc(text, ...): every match, leftmost first and none
\* overlapping, is kept when allowed and dropped otherwise
RECURSIVE FilterFrom(_, _)
FilterFrom(text, i) ==
  IF i > Len(text) THEN <<>>
  ELSE LET m == CsiMatchAt(text, i) IN
       IF m = <<>> THEN <<text[i]>> \o FilterFrom(text, i + 1)
       ELSE LET match == SubSeq(text, m[1].from, m[1].to) IN
            (IF Allowed(match) THEN match ELSE <<>>) \o FilterFrom(text, m[1].to + 1)

filterControlSequences(text) == FilterFrom(text, 1)

\* the pieces of the chunks read from the stream: plain bytes, SGR sequences,
\* clear screen, show cursor (a private mode), a sequence with `?` that ends
\* in m, a sequence that ends in `~`, a truncated sequence
RawPieces ==
  { <<LetterX>>, <<NewLine>>,
    <<ESC, LBracket, Digit0 + 3, Digit0 + 1, LetterM>>,
    <<ESC, LBracket, Digit0, LetterM>>,
    <<ESC, LBracket, Digit0 + 2, LetterJ>>,
    <<ESC, LBracket, QuestionMark, Digit0 + 2, Digit0 + 5, LetterH>>,
    <<ESC, LBracket, QuestionMark, Digit0 + 1, LetterM>>,
    <<ESC, LBracket, Digit0 + 2, Tilde>>,
    <<ESC, LBracket>> }

RECURSIVE RawTextsOf(_)
RawTextsOf(n) ==
  IF n = 0 THEN {<<>>}
  ELSE LET T == RawTextsOf(n - 1) IN T \cup {t \o p : t \in T, p \in RawPieces}

\* the text of the filter's example: ESC[2J ESC[31m hi ESC[0m
SampleFilter ==
  <<ESC, LBracket, Digit0 + 2, LetterJ,
    ESC, LBracket, Digit0 + 3, Digit0 + 1, LetterM, LetterH, 105,
    ESC, LBracket, Digit0, LetterM>>

RawTexts == RawTextsOf(MaxPieces) \cup {SampleFilter}

\* strings.TrimSpace(text) == ""
IsBlank(text) == \A k \in 1..Len(text) : text[k] \in {9, 10, 11, 12, 13, 32}

\* handlePtyOutput lines 379-383: a chunk has been read
CallOutput ==
  /\ ev.pc = "idle" /\ outputLines = <<>>
  /\ \E raw \in RawTexts \ {<<>>} : ev' = [pc |-> "filter", raw |-> raw]
  /\ UNCHANGED outputLines /\ DecUnchanged

\* line 386: text = t.filterControlSequences(text)
FilterOutput ==
  /\ ev.pc = "filter"
  /\ ev' = [pc |-> "filtered", raw |-> ev.raw, text |-> filterControlSequences(ev.raw)]
  /\ UNCHANGED outputLines /\ DecUnchanged

\* lines 389-400: the text is no password prompt; unless it is blank it goes
\* to addColoredOutputAtBeginning in white
InsertFiltered ==
  /\ ev.pc = "filtered"
  /\ ev' = IF IsBlank(ev.text) THEN EvIdle
           ELSE DecEnter("split", ev.text, StyleOf(AnsiColor(37)))
  /\ UNCHANGED outputLines /\ DecUnchanged

\* the parameters of the lists applied: reset, bold, italic, underline and
\* their clearing codes, a foreground, a background, the two extended-colour
\* codes, the 5 of their indexed form, a code the switch does not know
CodeAlphabet == {0, 1, 3, 4, 22, 23, 24, 31, 41, 38, 48, 5, 99}

RECURSIVE CodeLists(_)
CodeLists(n) ==
  IF n = 0 THEN {<<>>}
  ELSE LET L == CodeLists(n - 1) IN L \cup {Append(l, c) : l \in L, c \in CodeAlphabet}

\* base styles: what the callers of parseANSI pass, and a style with an
\* attribute of its own (the titleStyle of processHelpCommand)
ApplyBases == BaseStyles \cup {[StyleOf(AnsiColor(36)) EXCEPT !.bold = TRUE]}

\* applyANSICodes(codes, baseStyle) is entered (parseANSI line 1016)
CallApply ==
  /\ ev.pc = "idle" /\ outputLines = <<>>
  /\ \E codes \in CodeLists(MaxCodes) \ {<<>>}, base \in ApplyBases :
       ev' = [pc |-> "apply", codes |-> codes, base |-> base, i |-> 1, st |-> ApplyStart,
              was |-> ApplyStart, at |-> 0]
  /\ UNCHANGED outputLines /\ DecUnchanged

\* one turn of the loop of lines 1057-1102; was and at keep the locals and the
\* index the turn started from
ApplyStep ==
  /\ ev.pc = "apply" /\ ev.i <= Len(ev.codes)
  /\ LET r == ApplyCode(ev.codes, ev.i, ev.st) IN
     ev' = [ev EXCEPT !.st = r[1], !.i = r[2], !.was = ev.st, !.at = ev.i]
  /\ UNCHANGED outputLines /\ DecUnchanged

\* lines 1104-1123: the style is put together and returned
ApplyReturn ==
  /\ ev.pc = "apply" /\ ev.i > Len(ev.codes)
  /\ ev' = [pc |-> "applied", codes |-> ev.codes, base |-> ev.base,
            style |-> ApplyFinish(ev.st, ev.base)]
  /\ UNCHANGED outputLines /\ DecUnchanged

\* parseANSI line 1016: the style returned becomes currentStyle
ApplyDone ==
  /\ ev.pc = "applied"
  /\ ev' = EvIdle
  /\ UNCHANGED outputLines /\ DecUnchanged

DecNext ==
  \/ CallInsert \/ CallBuiltin \/ CallSimple
  \/ ParseFind \/ ParseMatch \/ ParseRest
  \/ StoreSplit \/ StoreDirect
  \/ CallApply \/ ApplyStep \/ ApplyReturn \/ ApplyDone
  \/ CallOutput \/ FilterOutput \/ InsertFiltered

DecodeSpec == DecInit /\ [][DecNext]_vars

\* ---- the line editor: handleKeyEvent while no session is live -------------

\* bounds of the editor runs: runes in a line, lines submitted
MaxLen == 2
MaxHistory == 2

\* the runes typed
Runes == {"a", "b"}

\* strings.HasPrefix(s, p)
HasPrefix(s, p) == Len(p) <= Len(s) /\ SubSeq(s, 1, Len(p)) = p

\* strings.Contains(s, p)
Contains(s, p) == \E i \in 0..(Len(s) - Len(p)) : SubSeq(s, i + 1, i + Len(p)) = p

\* for i := len(list) - 1; i >= 0; i-- : the list from its last entry to its first
Backwards(list) == [i \in 1..Len(list) |-> list[Len(list) + 1 - i]]

\* matches = append(matches, cmd) unless seen[cmd]
RECURSIVE AppendUnseen(_, _)
AppendUnseen(matches, cmds) ==
  IF cmds = <<>> THEN matches
  ELSE AppendUnseen(IF \E k \in 1..Len(matches) : matches[k] = Head(cmds)
                      THEN matches ELSE Append(matches, Head(cmds)),
                    Tail(cmds))

\* findCompletionMatches, lines 2045-2102: the entries of the zsh history and
\* then of the history that start with the input, newest first; if there are
\* none, those that contain it
findCompletionMatches(input, zshHistory, hist) ==
  LET cmds == Backwards(zshHistory) \o Backwards(hist)
      starts == SelectSeq(cmds, LAMBDA c : HasPrefix(c, input) /\ c # input)
      holds == SelectSeq(cmds, LAMBDA c : Contains(c, input) /\ c # input)
  IN IF Len(input) = 0 THEN <<>>
     ELSE IF starts # <<>> THEN AppendUnseen(<<>>, starts)
     ELSE AppendUnseen(<<>>, holds)

\* the matches for the line buf in this run
Matches(buf) == findCompletionMatches(buf, lim.zsh, history)

\* insertRune, lines 2034-2041, the buffer it leaves
insertRune(buf, pos, r) == SubSeq(buf, 1, pos) \o <<r>> \o SubSeq(buf, pos + 1, Len(buf))

\* append(buf[:from], buf[to:]...) of lines 1929 and 1937
Without(buf, from, to) == SubSeq(buf, 1, from) \o SubSeq(buf, to + 1, Len(buf))

\* the zsh history loaded by main (lines 457-464): none, or one line
ZshHistories == {<<>>, <<<<"a", "b">>>>}

Editing(zsh) == [zsh |-> zsh]

EditInit == Boot /\ lim \in {Editing(z) : z \in ZshHistories}

\* the key reaches the switch of line 1868
LocalBranch == Alive /\ ev.pc = "idle" /\ ~LiveBranch

\* what no key of the local switch touches
EditFrame ==
  UNCHANGED <<inPtyMode, ptmx, cmd, ptyClosed, sudoPrompt, outputLines, ev,
              rd, wt, proc, closes, chClosed, panicked, ncmd, nkeys, lim, envVars>>

\* updateCompletionList, lines 2142-2161
UpdateCompletionList ==
  completionMatches' = Matches(inputBuffer') /\ completionIndex' = 0

\* lines 2018-2021: KeyRune, insertRune and updateCompletionList
EditRune ==
  /\ LocalBranch /\ Len(inputBuffer) < MaxLen
  /\ \E r \in Runes : inputBuffer' = insertRune(inputBuffer, cursorPos, r)
  /\ cursorPos' = cursorPos + 1
  /\ UpdateCompletionList
  /\ UNCHANGED <<history, historyPos>> /\ EditFrame

\* lines 1927-1933: KeyBackspace
EditBackspace ==
  /\ LocalBranch
  /\ IF cursorPos > 0 /\ Len(inputBuffer) > 0
       THEN /\ inputBuffer' = Without(inputBuffer, cursorPos - 1, cursorPos)
            /\ cursorPos' = cursorPos - 1
            /\ UpdateCompletionList
       ELSE UNCHANGED <<inputBuffer, cursorPos, completionMatches, completionIndex>>
  /\ UNCHANGED <<history, historyPos>> /\ EditFrame

\* lines 1935-1940: KeyDelete
EditDelete ==
  /\ LocalBranch
  /\ IF cursorPos < Len(inputBuffer)
       THEN /\ inputBuffer' = Without(inputBuffer, cursorPos, cursorPos + 1)
            /\ UpdateCompletionList
       ELSE UNCHANGED <<inputBuffer, completionMatches, completionIndex>>
  /\ UNCHANGED <<cursorPos, history, historyPos>> /\ EditFrame

\* lines 1942-1956: KeyLeft, KeyRight, KeyHome, KeyEnd
EditMove ==
  /\ LocalBranch
  /\ \E k \in {"Left", "Right", "Home", "End"} :
       cursorPos' = CASE k = "Left" -> IF cursorPos > 0 THEN cursorPos - 1 ELSE cursorPos
                      [] k = "Right" -> IF cursorPos < Len(inputBuffer)
                                          THEN cursorPos + 1 ELSE cursorPos
                      [] k = "Home" -> 0
                      [] OTHER -> Len(inputBuffer)
  /\ UNCHANGED <<inputBuffer, history, historyPos, completionMatches, completionIndex>>
  /\ EditFrame

\* lines 1891-1901: KeyUp without Ctrl
EditUp ==
  /\ LocalBranch
  /\ IF historyPos > 0
       THEN /\ historyPos' = historyPos - 1
            /\ inputBuffer' = history[historyPos' + 1]
            /\ cursorPos' = Len(inputBuffer')
       ELSE UNCHANGED <<historyPos, inputBuffer, cursorPos>>
  /\ UNCHANGED <<history, completionMatches, completionIndex>> /\ EditFrame

\* lines 1903-1918: KeyDown without Ctrl
EditDown ==
  /\ LocalBranch
  /\ IF historyPos < Len(history) - 1
       THEN /\ historyPos' = historyPos + 1
            /\ inputBuffer' = history[historyPos' + 1]
            /\ cursorPos' = Len(inputBuffer')
       ELSE IF historyPos = Len(history) - 1
         THEN /\ historyPos' = Len(history)
              /\ inputBuffer' = <<>>
              /\ cursorPos' = 0
         ELSE UNCHANGED <<historyPos, inputBuffer, cursorPos>>
  /\ UNCHANGED <<history, completionMatches, completionIndex>> /\ EditFrame

\* autoComplete, lines 2105-2122
AutoComplete ==
  LET matches == Matches(inputBuffer) IN
  IF Len(matches) = 0
    THEN UNCHANGED <<inputBuffer, cursorPos, completionMatches, completionIndex>>
    ELSE /\ completionMatches' = matches
         /\ completionIndex' = 0
         /\ inputBuffer' = matches[1]
         /\ cursorPos' = Len(inputBuffer')

\* lines 1973-1977 and 1996-2000: the current match becomes the line
ApplyMatch ==
  IF completionIndex' < Len(completionMatches)
    THEN inputBuffer' = completionMatches[completionIndex' + 1] /\ cursorPos' = Len(inputBuffer')
    ELSE UNCHANGED <<inputBuffer, cursorPos>>

\* lines 1958-1981: KeyTab
EditTab ==
  /\ LocalBranch
  /\ IF Len(completionMatches) > 0
       THEN /\ completionIndex' = IF completionIndex < Len(completionMatches) - 1
                                    THEN completionIndex + 1 ELSE completionIndex
            /\ ApplyMatch
            /\ UNCHANGED completionMatches
       ELSE AutoComplete
  /\ UNCHANGED <<history, historyPos>> /\ EditFrame

\* lines 1983-2006: KeyBacktab
EditBacktab ==
  /\ LocalBranch
  /\ IF Len(completionMatches) > 0
       THEN /\ completionIndex' = IF completionIndex > 0
                                    THEN completionIndex - 1 ELSE completionIndex
            /\ ApplyMatch
            /\ UNCHANGED completionMatches
       ELSE AutoComplete
  /\ UNCHANGED <<history, historyPos>> /\ EditFrame

\* lines 1877-1883: KeyEscape
EditEscape ==
  /\ LocalBranch
  /\ inputBuffer' = <<>> /\ cursorPos' = 0
  /\ completionMatches' = <<>> /\ completionIndex' = 0
  /\ UNCHANGED <<history, historyPos>> /\ EditFrame

\* lines 1885-1889: KeyEnter; a line that is not empty goes to executeCommand,
\* whose processCommand returns no segment or one
EditEnter ==
  /\ LocalBranch /\ Len(history) < MaxHistory
  /\ IF inputBuffer # <<>>
       THEN \E res \in {<<>>, StartFailed} : ev' = [EvIdle EXCEPT !.pc = "execRead", !.res = res]
       ELSE UNCHANGED ev
  /\ UNCHANGED <<inPtyMode, ptmx, cmd, ptyClosed, sudoPrompt, outputLines, inputBuffer,
                 rd, wt, proc, closes, chClosed, panicked, ncmd, nkeys, lim, envVars, editVars>>

EditNext ==
  \/ EditRune \/ EditBackspace \/ EditDelete \/ EditMove \/ EditUp \/ EditDown
  \/ EditTab \/ EditBacktab \/ EditEscape \/ EditEnter \/ ExecRead \/ ExecWrite

EditSpec == EditInit /\ [][EditNext]_vars

\* ---- the claims ----------------------------------------------------------

\* the child of session s is running
ChildAlive(s) == proc[s].st = "running"

\* Close() has been called on the handle of session s
Released(s) == closes[s] > 0

\* processPtyCommand starts the child of session s in this step
Starts(s) == proc[s].st = "none" /\ proc'[s].st # "none"

\* C1: processPtyCommand never starts a new child while a child started before
\* has not exited or its stream has not been released.
C1_NoSecondSession ==
  [][\A s \in Sessions : Starts(s) =>
        \A p \in Sessions : proc[p].st # "none" => ~ChildAlive(p) /\ Released(p)]_vars

\* both goroutines of session s have returned
Finished(s) == rd[s].pc = "done" /\ wt[s].pc = "done"

\* C2: the handle of every session is released exactly once: never twice, and
\* once the session's reader and watcher have both returned, not zero times.
C2_ReleasedExactlyOnce ==
  \A s \in Sessions : closes[s] <= 1 /\ (Finished(s) => closes[s] = 1)

\* the reader of session s is past the wait for its child (lines 243-273)
PastWait(s) == rd[s].pc \in {"cChk", "cSel", "cClose", "cNil", "done"}

\* C3: every session appends exactly one terminal-status message: none before
\* the wait of the cleanup, one being stored when the wait ends, never a second.
C3_OneStatus ==
  \A s \in Sessions :
    /\ rd[s].nstatus <= 1
    /\ PastWait(s) => rd[s].nstatus = 1
    /\ rd[s].pc = "insW" /\ rd[s].ret = "cChk" =>
         rd[s].nstatus = 1 /\ IsStatus(Head(rd[s].snap)) /\ Head(rd[s].snap).s = s
    /\ rd[s].pc \in {"read", "dChk", "dClose", "dNil", "dMode", "dWait"} => rd[s].nstatus = 0

C3_Witness ==
  \E s \in Sessions :
    /\ Finished(s) /\ rd[s].nstatus = 1
    /\ \E i \in 1..Len(outputLines) : outputLines[i] = Msg("stDone", s)

\* the session of s is Closed
Closed(s) == Alive /\ ~inPtyMode /\ ptmx = Nil /\ chClosed[s]

\* C4: once the child of a session has exited, the session reaches Closed
\* (inPtyMode false, ptmx nil, ptyClosed closed) with no further key event.
C4_EventuallyClosed ==
  \A s \in Sessions : (proc[s].st = "exited") ~> Closed(s)

\* the reader of session s has left its read loop
Draining(s) == rd[s].pc \notin {"none", "read"} /\ ~(rd[s].pc = "insW" /\ rd[s].ret = "read")

\* the watcher of session s has seen the exit of the child
ExitObserved(s) == wt[s].pc \notin {"none", "wait"}

\* C5: the stream of a session is released only once its reader is Draining
\* and its watcher has observed the exit of the child.
C5_ReleaseAfterDrainAndExit ==
  \A s \in Sessions : Released(s) => Draining(s) /\ ExitObserved(s)

\* C6: writeWithRetry never calls Write on a handle that is nil or on which
\* Close has been called.
C6_NoWriteOnReleased ==
  [][ev.pc = "wWrite" /\ ev'.pc # "wWrite" => ptmx # Nil /\ ~Released(ptmx)]_vars

\* C7: when writeWithRetry has reported a failed write and returns, the session
\* is not live any more (inPtyMode is false).
C7_FailedWriteEndsSession ==
  [][ev.pc = "insW" /\ ev'.pc = "idle" => ~inPtyMode']_vars

\* C8: a Ctrl+C handled while a session is live sends the interrupt signal when
\* the process handle is available (unless the process is already gone) and
\* writes the byte 3 to the stream when it is not.
C8_InterruptDelivered ==
  [][ev.key = "CtrlC" /\ ev.pc \in {"dispatch", "oChk"} /\ ev'.pc # ev.pc /\ inPtyMode =>
       IF HandleAvailable
         THEN ev'.sent = "INT" \/ ev'.pc = "oSig" \/ SignalFails(cmd)
         ELSE ev'.pc \in {"wChk", "oWrite"} /\ ev'.data = 3]_vars

\* C9: a command whose start fails yields exactly one error segment, changes
\* none of ptmx, cmd, inPtyMode, ptyClosed, starts no goroutine and no child;
\* a start that succeeds yields no segment.
C9_FailedStartChangesNothing ==
  [][ncmd' = ncmd + 1 /\ inputBuffer = LineSys =>
       /\ ev'.pc = "execRead"
       /\ IF proc'[ncmd'].st = "none"
            THEN /\ Len(ev'.res) = 1 /\ ev'.res[1].k = "err"
                 /\ UNCHANGED <<ptmx, cmd, inPtyMode, ptyClosed, rd, wt, proc>>
            ELSE ev'.res = <<>>]_vars

C9_Witness ==
  /\ ev.pc = "idle" /\ ncmd = 1 /\ proc[1].st = "none"
  /\ outputLines = <<Msg("cmd", 0), Msg("err", 0)>>
  /\ ~inPtyMode /\ ptmx = Nil /\ cmd = Nil /\ ptyClosed = Nil
  /\ rd[1].pc = "none" /\ wt[1].pc = "none"

\* C10: the reader never makes more than maxRetries failed reads in a row.
C10_BoundedRetries ==
  \A s \in Sessions : rd[s].run <= maxRetries

\* the kinds of the diagnostics of the read loop (lines 351 and 370)
ReadDiagKinds == {"diagIO", "diagRead"}

\* the reader of session s leaves its read loop in this step
LeavesLoop(s) == rd[s].pc = "read" /\ Draining(s)'

\* the read that ends the loop failed: the file was closed under the reader, or
\* the last retry of an input/output error was used up
EndsOnError(s) == closes[s] > 0 \/ rd'[s].retries >= maxRetries

\* C11: a read loop that ends on an error (a non-transient error, or the retries
\* of a transient one used up) ends with one diagnostic being stored in the
\* output sink, never silently.
C11_ErrorReported ==
  [][\A s \in Sessions : LeavesLoop(s) /\ EndsOnError(s) =>
        /\ rd'[s].pc = "insW" /\ rd'[s].ret = "dChk"
        /\ Len(rd'[s].snap) = Len(outputLines) + 1
        /\ Head(rd'[s].snap).k \in ReadDiagKinds]_vars


\* the reader of session s is storing its terminal-status message
StoringStatus(s) == rd[s].pc = "insW" /\ rd[s].ret = "cChk"

\* the status message that tells how the child of session s ended
StatusOwed(s) ==
  IF rd[s].waited
    THEN IF proc[s].code = 0 THEN "stSuccess" ELSE "stCode"
    ELSE "stTimeout"

\* C12: the terminal-status message of a session is the success message when
\* the child exited with code 0, the exit-code message when it exited with
\* another code, and the timeout message only when the wait did not return.
C12_StatusReflectsExit ==
  \A s \in Sessions : StoringStatus(s) => Head(rd[s].snap).k = StatusOwed(s)

\* the deferred cleanup of the reader of session s has run to its end
CleanupDone(s) == rd[s].pc = "done"

\* C13: once the read loop of a session has ended, the reader's cleanup
\* completes, with the session's ptyClosed channel closed, whether or not the
\* child exits.
C13_CleanupCompletes ==
  \A s \in Sessions : Draining(s) ~> (CleanupDone(s) /\ chClosed[s])

\* the handler of a Ctrl+Q that arrived while a session was live returns
TerminateReturns == ev.key = "CtrlQ" /\ ev.pc # "idle" /\ ev'.pc = "idle"

\* C14: when the handler of a Ctrl+Q pressed during a live session returns, the
\* child is no longer running, inPtyMode is false, the stream handle has been
\* closed and set to nil, and the process handle is nil.
C14_TerminateCloses ==
  [][TerminateReturns =>
       /\ ~inPtyMode' /\ ptmx' = Nil /\ cmd' = Nil
       /\ ptmx # Nil => closes'[ptmx] > 0
       /\ cmd # Nil => proc'[cmd].st # "running"]_vars

\* what is left of snap without its first n elements
Base(snap, n) == SubSeq(snap, n + 1, Len(snap))

\* the store that ends an insertion of the event loop, and the output the
\* insertion was built on (executeCommand line 1223, addColoredOutputAtBeginning
\* line 1162)
EvStores == ev.pc \in {"execWrite", "insW"} /\ ev'.pc = "idle"

EvBase == IF ev.pc = "execWrite" THEN Base(ev.snap, 1 + Len(ev.res)) ELSE Base(ev.snap, 1)

\* the same for the reader of session s
RdStores(s) == rd[s].pc = "insW" /\ rd'[s].pc # "insW"

\* C15: insertion into the output sink is serialised: the output an insertion
\* was built on is still the output when the insertion is stored, so no other
\* insertion falls between its read and its write and is overwritten.
C15_InsertionSerialized ==
  [][/\ EvStores => EvBase = outputLines
     /\ \A s \in Sessions : RdStores(s) => Base(rd[s].snap, 1) = outputLines]_vars

\* old is what new ends with
IsSuffix(old, new) ==
  Len(old) <= Len(new) /\ SubSeq(new, Len(new) - Len(old) + 1, Len(new)) = old

\* the builtin clear runs in this step (processCommand lines 1251-1253)
ClearRuns == ev.pc = "idle" /\ inputBuffer = LineClear /\ ncmd' = ncmd + 1

\* C16: segments accumulate: every step other than the builtin clear keeps all
\* segments stored before it, in their order, below whatever it inserts.
C16_SegmentsAccumulate ==
  [][~ClearRuns => IsSuffix(outputLines, outputLines')]_vars

\* executeCommand returns from the builtin clear
ClearReturns == ev.pc = "execWrite" /\ inputBuffer = LineClear /\ ev'.pc = "idle"

\* no reader goroutine has been started: the event loop is the only writer
Sequential == \A s \in Sessions : rd[s].pc = "none"

IsLine(text) == text = <<NewLine>> \/ \A k \in 1..Len(text) : text[k] # NewLine

\* the segments this step puts in front of the output stored before
Stored == SubSeq(outputLines', 1, Len(outputLines') - Len(outputLines))

\* C18: every segment an insertion stores is a line-break marker or a run of
\* text with no line break in it, and carries the style of a decoded segment
\* (or is the echoed command line), on every insertion path.
C18_SegmentsAreLines ==
  [][outputLines' # outputLines =>
       \A i \in 1..Len(Stored) :
         /\ IsLine(Stored[i].text)
         /\ \/ Stored[i] = CommandSegment
            \/ \E k \in 1..Len(ev.segs) : ev.segs[k].style = Stored[i].style]_vars

\* byte k of text lies inside an SGR sequence ESC [ (digit | ;)* m
InSGR(text, k) ==
  \E i \in 1..k, j \in k..Len(text) :
    /\ j >= i + 2 /\ text[i] = ESC /\ text[i + 1] = LBracket /\ text[j] = LetterM
    /\ \A p \in (i + 2)..(j - 1) : text[p] \in Digits \cup {Semicolon}

\* text with its SGR sequences removed
StripSGR(text) ==
  LET F[k \in 0..Len(text)] ==
        IF k = 0 THEN <<>>
        ELSE IF InSGR(text, k) THEN F[k - 1] ELSE Append(F[k - 1], text[k])
  IN F[Len(text)]

RECURSIVE ConcatText(_)
ConcatText(segs) ==
  IF segs = <<>> THEN <<>> ELSE Head(segs).text \o ConcatText(Tail(segs))

\* C19: the texts of the segments parseANSI returns, concatenated in order,
\* are the input with its SGR sequences removed.
C19_DecoderLossless ==
  ev.pc = "parsed" => ConcatText(ev.segs) = StripSGR(ev.text)

\* a text with plain bytes on both sides of an SGR sequence has been decoded
C19_Witness ==
  /\ ev.pc = "parsed" /\ Len(ev.segs) >= 2
  /\ Len(StripSGR(ev.text)) < Len(ev.text)
  /\ ConcatText(ev.segs) = StripSGR(ev.text)

\* the codes of the SGR sequence parseANSI handles in this step
StepCodes ==
  LET m == Head(ev.matches)
      codes == parseANSICodes(SubSeq(ev.text, m.cs, m.ce))
  IN {codes[k] : k \in 1..Len(codes)}

\* C20: the style of the text after an SGR sequence is accumulated: what
\* earlier sequences have set (bold, italic, underline, colours) stays set
\* across a sequence that neither resets nor sets it anew.
C20_StyleAccumulates ==
  [][ev.pc = "loop" /\ ev.matches # <<>> /\ 0 \notin StepCodes =>
       /\ ev.cur.bold /\ 22 \notin StepCodes => ev'.cur.bold
       /\ ev.cur.italic /\ 23 \notin StepCodes => ev'.cur.italic
       /\ ev.cur.underline /\ 24 \notin StepCodes => ev'.cur.underline
       /\ StepCodes \cap (30..38 \cup 90..97) = {} => ev'.cur.fg = ev.cur.fg
       /\ StepCodes \cap (40..48 \cup 100..107) = {} => ev'.cur.bg = ev.cur.bg]_vars

\* the parameters of the SGR sequence parseANSI handles in this step, in order
StepCodeList ==
  LET m == Head(ev.matches) IN parseANSICodes(SubSeq(ev.text, m.cs, m.ce))

\* what follows the last 0 of a parameter list (the list itself when it has none)
AfterLastZero(codes) ==
  LET zs == {k \in 1..Len(codes) : codes[k] = 0} IN
  IF zs = {} THEN codes
  ELSE SubSeq(codes, (CHOOSE z \in zs : \A y \in zs : y <= z) + 1, Len(codes))

\* a list in which no 0 can be the operand of an extended-colour code
NoExtended(codes) == \A k \in 1..Len(codes) : codes[k] \notin {38, 48}

\* C21: an SGR sequence with an empty parameter list or the parameter 0 resets
\* the style to exactly the base style, the codes after a 0 of one list apply
\* on top of the base style, and ESC[31m X ESC[0m Y decodes to X in red on the
\* base style and Y in exactly the base style.
C21_ResetToBase ==
  [][/\ ev.pc = "loop" /\ ev.matches # <<>> /\ NoExtended(StepCodeList) =>
          /\ ev'.cur = applyANSICodes(AfterLastZero(StepCodeList), ev.base)
          /\ StepCodeList[Len(StepCodeList)] = 0 => ev'.cur = ev.base
     /\ ev.pc = "apply" /\ ev'.pc = "apply" /\ ev.codes[ev.i] = 0 =>
          ev'.st = [fg |-> ColorDefault, bg |-> ColorDefault, bold |-> FALSE,
                    underline |-> FALSE, italic |-> FALSE]
     /\ ev.pc = "apply" /\ ev'.pc = "applied" /\ NoExtended(ev.codes) =>
          /\ ev'.style = applyANSICodes(AfterLastZero(ev.codes), ev.base)
          /\ ev.codes[Len(ev.codes)] = 0 => ev'.style = ev.base
     /\ ev'.pc = "parsed" /\ ev'.text = SampleReset =>
          ev'.segs = <<Segment(<<88>>, [ev.base EXCEPT !.fg = AnsiColor(31)]),
                       Segment(<<89>>, ev.base)>>]_vars

\* ESC[31m X ESC[0m Y has been decoded: X is red, Y carries the base style
C21_Witness ==
  /\ ev.pc = "parsed" /\ ev.text = SampleReset /\ Len(ev.segs) = 2
  /\ ev.segs[1].style.fg = AnsiColor(31)
  /\ ev.segs[2].style = ev.base

\* the last of the codes set, clr and 0 in the list is set (is clr)
LastSets(codes, set, clr) ==
  \E k \in 1..Len(codes) :
    codes[k] = set /\ \A j \in (k + 1)..Len(codes) : codes[j] \notin {clr, 0}
LastClears(codes, set, clr) ==
  \E k \in 1..Len(codes) :
    codes[k] = clr /\ \A j \in (k + 1)..Len(codes) : codes[j] \notin {set, 0}

\* the sets and clears of codes are what style shows
AttributesFollow(codes, style) ==
  /\ LastSets(codes, 1, 22) => style.bold
  /\ LastSets(codes, 3, 23) => style.italic
  /\ LastSets(codes, 4, 24) => style.underline
  /\ LastClears(codes, 1, 22) => ~style.bold
  /\ LastClears(codes, 3, 23) => ~style.italic
  /\ LastClears(codes, 4, 24) => ~style.underline

\* C22: the parameters 1, 3, 4 set bold, italic, underline and 22, 23, 24 clear
\* them: after a 22 / 23 / 24 the style that results does not have the
\* attribute, whether an earlier SGR sequence had set it or the base style has it.
C22_ClearsAttributes ==
  [][/\ ev.pc = "loop" /\ ev.matches # <<>> /\ NoExtended(StepCodeList) =>
          AttributesFollow(StepCodeList, ev'.cur)
     /\ ev.pc = "apply" /\ ev'.pc = "applied" /\ NoExtended(ev.codes) =>
          AttributesFollow(ev.codes, ev'.style)]_vars

\* the codes the switch of applyANSICodes knows by themselves
KnownCodes ==
  {0, 1, 3, 4, 22, 23, 24} \cup 30..37 \cup 90..97 \cup 40..47 \cup 100..107

\* the turn of the loop at index i is the indexed form `code`;5;N
IndexedAt(codes, i, code) ==
  codes[i] = code /\ i + 2 <= Len(codes) /\ codes[i + 1] = 5

\* C23: 38;5;N (48;5;N) sets the indexed foreground (background) and consumes
\* the two parameters that follow, which are never read as codes of their own;
\* with the second of them missing the 38 / 48 is ignored and the scan goes on
\* at the next parameter; a code the decoder does not know changes nothing.
C23_IndexedColour ==
  [][/\ ev.pc = "apply" /\ ev'.pc = "apply" =>
          LET codes == ev.codes
              i == ev.i
          IN /\ IndexedAt(codes, i, 38) =>
                  /\ ev'.st = [ev.st EXCEPT !.fg = PaletteColor(codes[i + 2])]
                  /\ ev'.i = i + 3
             /\ IndexedAt(codes, i, 48) =>
                  /\ ev'.st = [ev.st EXCEPT !.bg = PaletteColor(codes[i + 2])]
                  /\ ev'.i = i + 3
             /\ codes[i] \in {38, 48} /\ i + 2 > Len(codes) =>
                  ev'.st = ev.st /\ ev'.i = i + 1
             /\ codes[i] \notin KnownCodes \cup {38, 48} =>
                  ev'.st = ev.st /\ ev'.i = i + 1
     /\ ev'.pc = "applied" =>
          /\ ev'.codes = <<38, 5, 1>> => ev'.style = [ev.base EXCEPT !.fg = PaletteColor(1)]
          /\ ev'.codes = <<48, 5, 1>> => ev'.style = [ev.base EXCEPT !.bg = PaletteColor(1)]
          /\ ev'.codes = <<38, 5, 0>> => ev'.style = [ev.base EXCEPT !.fg = PaletteColor(0)]
          /\ ev'.codes = <<38, 1>> => ev'.style = [ev.base EXCEPT !.bold = TRUE]
          /\ ev'.codes \in {<<38, 5>>, <<48, 5>>, <<38>>, <<99>>, <<5, 99>>} =>
               ev'.style = ev.base]_vars

\* 38;5;1 has been applied to a base style without bold: the foreground is the
\* palette colour 1 and the 1 has not switched bold on
C23_Witness ==
  /\ ev.pc = "applied" /\ ev.codes = <<38, 5, 1>> /\ ~ev.base.bold
  /\ ev.style.fg = PaletteColor(1) /\ ~ev.style.bold

\* the final bytes of a control sequence (ECMA-48: @ to ~)
FinalBytes == 64..126

\* [from, to] is in text a sequence ESC [ (digit | ; | ?)* final-byte
IsSequence(text, from, to) ==
  /\ to >= from + 2 /\ to <= Len(text)
  /\ text[from] = ESC /\ text[from + 1] = LBracket /\ text[to] \in FinalBytes
  /\ \A p \in (from + 2)..(to - 1) : text[p] \in Digits \cup {Semicolon, QuestionMark}

\* ... of the SGR form ESC [ (digit | ;)* m
IsSGRSequence(text, from, to) ==
  /\ IsSequence(text, from, to) /\ text[to] = LetterM
  /\ \A p \in (from + 2)..(to - 1) : text[p] # QuestionMark

\* byte k of text lies inside a sequence of the general form that is not SGR
InRemoved(text, k) ==
  \E i \in 1..k, j \in k..Len(text) :
    IsSequence(text, i, j) /\ ~IsSGRSequence(text, i, j)

\* text without the sequences of the general form that are not SGR
StripNonSGR(text) ==
  LET F[k \in 0..Len(text)] ==
        IF k = 0 THEN <<>>
        ELSE IF InRemoved(text, k) THEN F[k - 1] ELSE Append(F[k - 1], text[k])
  IN F[Len(text)]

\* C24: the filter removes every escape sequence ESC [ [0-9;?]* final-byte but
\* those of the SGR form ESC [ [0-9;]* m, which it passes byte for byte, and
\* leaves every other byte untouched; of ESC[2J ESC[31m hi ESC[0m it removes
\* the clear-screen sequence and keeps both SGR sequences.
C24_FilterAllowList ==
  ev.pc = "filtered" =>
    /\ ev.text = StripNonSGR(ev.raw)
    /\ ev.raw = SampleFilter => ev.text = SubSeq(SampleFilter, 5, Len(SampleFilter))

\* a child has been started for session s
Started(s) == proc[s].st # "none"

\* C25: the environment of every child has TERM=xterm-256color,
\* COLORTERM=truecolor and the UTF-8 locale values, whatever has been exported:
\* a variable of the same name set with the builtin export does not override
\* the forced value.
C25_ForcedEnvironment ==
  \A s \in Sessions : Started(s) =>
    /\ proc[s].env["TERM"] = "xterm-256color"
    /\ proc[s].env["COLORTERM"] = "truecolor"
    /\ proc[s].env["LANG"] = "en_US.UTF-8"
    /\ proc[s].env["LC_ALL"] = "en_US.UTF-8"

\* C26: in the environment of a child a variable set with the builtin export
\* takes precedence over an inherited variable of the same name, and every
\* variable of envVars is in the environment of every child started afterwards.
C26_CustomEnvironment ==
  [][\A s \in Sessions : Starts(s) =>
        \A n \in EnvNames : envVars[n] # Unset => proc'[s].env[n] = envVars[n]]_vars

\* the keys that stand for one byte of input
ByteKeys == {"Backspace", "Tab", "Rune", "Escape", "CtrlD"}

\* handleKeyEvent decides in this step what to do with the key of a live
\* session while a password prompt is shown
PromptDispatch == ev.pc = "dispatch" /\ ev'.pc # "dispatch" /\ sudoPrompt

\* the handler of a key of a live session is running
InKeyHandler == ev.pc \in {"chkClosed", "chkNil", "dispatch", "wChk", "wWrite", "wSleep", "insW"}

\* C27: while a password prompt is shown and a session is live, every key but
\* Enter and the interrupt is forwarded to the session as it is, no key changes
\* the local line buffer, and Enter and the interrupt end the prompt mode.
C27_PromptForwardsKeys ==
  [][/\ PromptDispatch /\ ev.key \in ByteKeys =>
          ev'.pc = "wChk" /\ ev'.data = KeyByte(ev.key)
     /\ InKeyHandler => inputBuffer' = inputBuffer
     /\ PromptDispatch /\ ev.key \in {"Enter", "CtrlC"} =>
          \/ ev'.pc = "wChk" /\ ev'.post = "clear"
          \/ ev'.pc = "idle" /\ ~sudoPrompt'
     /\ InKeyHandler /\ ev.post = "clear" /\ ev'.pc = "idle" => ~sudoPrompt']_vars

\* the event loop is inside time.Sleep
EventLoopSleeps == ev.pc = "wSleep"

\* C28: no operation of the event loop blocks: the handler of a key event,
\* the submission of a command line and the write of keystrokes to the stream
\* included, neither sleeps nor waits for the child to write or to exit.
C28_EventLoopNeverBlocks == ~EventLoopSleeps

\* C29: in every interleaving of the watcher, the deferred cleanup of the reader
\* and handleKeyEvent, no close(t.ptyClosed) is executed on a channel that is
\* already closed or on a nil channel: the program never panics.
C29_TeardownNeverPanics == ~panicked

\* the deferred cleanup of the reader of session s has started its own
\* goroutine around cmd.Process.Wait() (lines 244-249)
CleanupWaits(s) == rd[s].pc = "dWait" \/ StoringStatus(s) \/ PastWait(s)

\* the goroutines that have called cmd.Process.Wait() on the child of session s:
\* the watcher (line 195) and the goroutine of the cleanup (line 247)
WaitCalls(s) ==
  (IF wt[s].pc # "none" THEN {"watcher"} ELSE {}) \cup
  (IF CleanupWaits(s) THEN {"cleanup"} ELSE {})

\* C30: a started session has its reader and its watcher, and the exit of its
\* child is waited for by exactly one goroutine: no third goroutine waits on
\* the process of the same session.
C30_TwoWorkers ==
  \A s \in Sessions : Started(s) =>
    /\ rd[s].pc # "none" /\ wt[s].pc # "none"
    /\ Cardinality(WaitCalls(s)) = 1

\* the keys that stand for a signal or for the end of input
ControlKeys == {"CtrlZ", "CtrlC", "CtrlD"}

\* the signal of a control key and the byte that stands for it on a terminal
SignalOf(k) == IF k = "CtrlZ" THEN "TSTP" ELSE "INT"

ControlByte(k) == CASE k = "CtrlZ" -> 26 [] k = "CtrlC" -> 3 [] OTHER -> 4

\* the key handler of a live session leaves the key switch in this step
KeySwitched == ev.pc = "dispatch" /\ ev'.pc # "dispatch"

\* C31: a control key handled in a live session is delivered: Ctrl+D is written
\* as 0x04; Ctrl+Z and Ctrl+C are sent as a signal when the process handle is
\* available (unless the process is already gone) and written as their control
\* byte (0x1A, 0x03) when it is not.
C31_ControlKeyDelivered ==
  [][KeySwitched /\ ev.key \in ControlKeys =>
       IF ev.key = "CtrlD"
         THEN ev'.pc = "wChk" /\ ev'.data = ControlByte(ev.key)
         ELSE IF HandleAvailable
                THEN ev'.sent = SignalOf(ev.key) \/ SignalFails(cmd)
                ELSE ev'.pc = "wChk" /\ ev'.data = ControlByte(ev.key)]_vars

\* the event loop takes a step of the handler of a key of a live session
KeyHandlerStep == InKeyHandler /\ ev' # ev

\* the key switch ends in a write to the stream or in a signal (a signal to a
\* process that is already reaped is lost)
KeyRouted == ev'.pc = "wChk" \/ ev'.sent # "none" \/ SignalFails(cmd)

\* C32: a key handled while a session is live is written to the stream or
\* turned into a signal, and no step of its handler changes inputBuffer or
\* outputLines; a key handled while no session is live starts no write and
\* sends no signal.
C32_KeyRoutingExclusive ==
  [][/\ KeySwitched => KeyRouted
     /\ KeyHandlerStep => inputBuffer' = inputBuffer /\ outputLines' = outputLines
     /\ ev.pc = "idle" /\ ~LiveBranch =>
          ev'.pc \notin {"chkClosed", "chkNil", "dispatch", "wChk", "wWrite"}
          /\ ev'.sent \in {"none", ev.sent}]_vars

\* the reader has decided what to do with the chunk it read and filtered
ChunkHandled == ev.pc = "filtered" /\ ev'.pc # "filtered"

\* C33: every chunk the reader has read and filtered is handed to the decoder
\* and the Output Sink, a chunk of nothing but white space or line breaks
\* included: no chunk that still has bytes after the filter is dropped.
C33_NoChunkDropped ==
  [][ChunkHandled /\ ev.text # <<>> =>
       ev'.pc = "find" /\ ev'.path = "split" /\ ev'.text = ev.text]_vars

\* the reader or the watcher of session s takes this step
WorkerStep(s) == rd'[s] # rd[s] \/ wt'[s] # wt[s]

\* a session has been started after session s
Superseded(s) == \E b \in Sessions : b > s /\ Started(b)

\* C34: once a later session has been started, the reader and the watcher of
\* session s leave inPtyMode alone, and they close and clear no stream handle
\* and no ptyClosed channel but those of session s.
C34_WorkersOwnSession ==
  [][\A s \in Sessions : WorkerStep(s) /\ Superseded(s) =>
        /\ inPtyMode' = inPtyMode
        /\ ptmx # s => ptmx' = ptmx
        /\ ptyClosed # s => ptyClosed' = ptyClosed
        /\ \A b \in Sessions \ {s} : closes'[b] = closes[b] /\ chClosed'[b] = chClosed[b]]_vars

\* the event loop handles a key in the local-editing branch in this step
LocalStep == ev.pc = "idle" /\ (inputBuffer' # inputBuffer \/ ncmd' # ncmd)

\* C35: whenever the event loop is between two events, inPtyMode is true
\* exactly when ptmx is not nil, and a key is handled by the local-editing
\* branch only when inPtyMode is false.
C35_ModeMatchesHandle ==
  [][/\ ev.pc = "idle" => (inPtyMode <=> ptmx # Nil)
     /\ LocalStep => ~inPtyMode]_vars

\* C36: whenever no session is live (inPtyMode is false) no password prompt is
\* set: a prompt the reader has detected does not outlive its session.
C36_PromptEndsWithSession == ~inPtyMode => ~sudoPrompt

\* the cursor is inside the line and the history position inside the history
EditorInBounds ==
  /\ 0 <= cursorPos /\ cursorPos <= Len(inputBuffer)
  /\ 0 <= historyPos /\ historyPos <= Len(history)

\* executeCommand returns in this step: the line in inputBuffer was submitted
Submitted == ev.pc = "execWrite" /\ ev'.pc = "idle"

\* C37: after every key handled in local mode the cursor is within the line
\* and the history position within the history; when a non-empty line has been
\* submitted the buffer is empty, the line is the last history entry and
\* historyPos is len(history).
C37_EditorInBounds ==
  [][/\ EditorInBounds /\ EditorInBounds'
     /\ Submitted =>
          /\ inputBuffer # <<>> /\ inputBuffer' = <<>>
          /\ history' = Append(history, inputBuffer)
          /\ historyPos' = Len(history')]_vars

\* a line recalled from the history was edited in the middle and submitted
\* again, and a completion is shown
C37_Witness ==
  /\ Len(history) = MaxHistory /\ history[1] # history[2] /\ Len(history[2]) = MaxLen
  /\ historyPos = 1 /\ cursorPos = 1 /\ Len(inputBuffer) = MaxLen
  /\ completionMatches # <<>>

\* C38: the filter is idempotent: filtering a chunk that has been filtered
\* changes nothing, so what is left after the removal of a sequence is never
\* a sequence the filter would remove.
C38_FilterIdempotent ==
  ev.pc = "filtered" => filterControlSequences(ev.text) = ev.text

\* ---- the output of a child read in two chunks ---------------------------

\* what a child writes: text, line breaks and complete sequences
StreamPieces == RawPieces \ {<<ESC, LBracket>>}

RECURSIVE StreamTextsOf(_)
StreamTextsOf(n) ==
  IF n = 0 THEN {<<>>}
  ELSE LET T == StreamTextsOf(n - 1) IN T \cup {t \o p : t \in T, p \in StreamPieces}

\* the bytes written and the number of them the first ptmx.Read returns
Streaming(raw, cut) == [stream |-> raw, cut |-> cut]

StreamInit ==
  Boot /\ lim \in {Streaming(raw, cut) : raw \in StreamTextsOf(MaxPieces) \ {<<>>},
                                         cut \in 1..(MaxPieces * 6)}
       /\ lim.cut < Len(lim.stream)

\* buf[:n] of the k-th read
Chunk(k) ==
  IF k = 1 THEN SubSeq(lim.stream, 1, lim.cut)
  ELSE SubSeq(lim.stream, lim.cut + 1, Len(lim.stream))

\* readPtyOutput lines 297-298 and handlePtyOutput lines 378-383: a read
\* returns the bytes that have arrived, and they are handled on their own
ReadChunk ==
  /\ ev.pc = "idle" /\ proc[1].produced < 2
  /\ proc' = [proc EXCEPT ![1].produced = @ + 1]
  /\ ev' = [pc |-> "filter", raw |-> Chunk(proc[1].produced + 1)]
  /\ UNCHANGED <<inPtyMode, ptmx, cmd, ptyClosed, sudoPrompt, outputLines, inputBuffer,
                 rd, wt, closes, chClosed, panicked, ncmd, nkeys, lim, envVars, editVars>>

StreamNext ==
  \/ ReadChunk \/ FilterOutput \/ InsertFiltered
  \/ ParseFind \/ ParseMatch \/ ParseRest \/ StoreSplit

StreamSpec == StreamInit /\ [][StreamNext]_vars

\* parseANSI lines 1000-1031 as a function: the loop over the matches and the
\* text after the last one
RECURSIVE ParseLoop(_, _, _, _, _, _)
ParseLoop(text, base, ms, lastIndex, cur, segs) ==
  IF ms = <<>>
    THEN IF lastIndex < Len(text)
           THEN Append(segs, Segment(TextBetween(text, lastIndex, Len(text)), cur))
           ELSE segs
    ELSE LET m == Head(ms)
             codeStr == SubSeq(text, m.cs, m.ce)
         IN ParseLoop(text, base, Tail(ms), m.to,
                      IF codeStr = <<>> THEN base
                      ELSE applyANSICodes(parseANSICodes(codeStr), base),
                      IF m.from - 1 > lastIndex
                        THEN Append(segs, Segment(TextBetween(text, lastIndex, m.from - 1), cur))
                        ELSE segs)

\* parseANSI lines 986-1031
parseANSI(text, baseStyle) ==
  LET ms == FindAll(text, 1) IN
  IF ms = <<>> THEN <<Segment(text, baseStyle)>>
  ELSE ParseLoop(text, baseStyle, ms, 0, baseStyle, <<>>)

\* handlePtyOutput lines 386-400: the segments one read of raw adds to the
\* output (raw holds no password prompt)
Inserted(raw) ==
  LET text == filterControlSequences(raw) IN
  IF IsBlank(text) THEN <<>>
  ELSE SplitSegments(parseANSI(text, StyleOf(AnsiColor(37))))

\* the bytes of a segment with its style, and those of a list of segments
StyledSegment(seg) == [k \in 1..Len(seg.text) |-> <<seg.text[k], seg.style>>]

RECURSIVE StyledBytes(_)
StyledBytes(segs) ==
  IF segs = <<>> THEN <<>> ELSE StyledSegment(Head(segs)) \o StyledBytes(Tail(segs))

\* both reads have been handled
StreamDone == proc[1].produced = 2 /\ ev.pc = "idle"

\* the output in the order of the stream: the segments of the first read are
\* the last ones of outputLines
InStreamOrder ==
  LET n == Len(outputLines)
      n1 == Len(Inserted(Chunk(1)))
  IN SubSeq(outputLines, n - n1 + 1, n) \o SubSeq(outputLines, 1, n - n1)

\* C39: the text and the styles in the output do not depend on where the
\* reads cut the stream: once both chunks are handled the output holds, byte
\* for byte and style for style, what one read of the whole stream gives.
C39_SplitIndependent ==
  StreamDone => StyledBytes(InStreamOrder) = StyledBytes(Inserted(lim.stream))

\* ---- the size of the pseudo-terminal -------------------------------------

MaxSide == 8       \* the small widths and heights of the display tried
Margin == 4        \* the rows and columns the frame of the display takes
Word16 == 65536    \* uint16 holds the values below 2^16

\* t.screen.Size(): the small sizes, and 80 columns by 24 rows
Sides == 0..MaxSide \cup {24, 80}

\* the display geometry of a run
Sizing(width, height) == [width |-> width, height |-> height]

SizeInit == Boot /\ lim \in {Sizing(w, h) : w \in Sides, h \in Sides}

\* uint16(n) of an int n: the low 16 bits
Uint16(n) == n % Word16

\* processPtyCommand line 166: width, height := t.screen.Size()
ScreenSize ==
  /\ ev.pc = "idle"
  /\ ev' = [pc |-> "size", width |-> lim.width, height |-> lim.height]
  /\ UNCHANGED outputLines /\ DecUnchanged

\* lines 170-173: pty.StartWithSize(cmd, &pty.Winsize{Rows: uint16(height - 4),
\* Cols: uint16(width - 4)})
StartWithSize ==
  /\ ev.pc = "size"
  /\ ev' = [pc |-> "start", width |-> ev.width, height |-> ev.height,
            Rows |-> Uint16(ev.height - Margin), Cols |-> Uint16(ev.width - Margin)]
  /\ UNCHANGED outputLines /\ DecUnchanged

SizeNext == ScreenSize \/ StartWithSize

SizeSpec == SizeInit /\ [][SizeNext]_vars

\* C40: the rows and columns given to the pseudo-terminal are at least 1 and
\* at most the height and the width of the display, whatever the display's
\* size is.
C40_SizedToDisplay ==
  ev.pc = "start" => ev.Rows \in 1..ev.height /\ ev.Cols \in 1..ev.width

====
